---- MODULE Spec2Model ----
(***************************************************************************)
(* A model of the transport/process core of rust-headless-chrome:          *)
(*   - the pipe-mode channel adapter (browser/transport/pipe_connection.rs)*)
(*     with its NUL-delimited framing and its receive loop;                *)
(*   - the Transport's call/response correlation and per-session event     *)
(*     routing (browser/transport/mod.rs is not among the source files;    *)
(*     it is modelled from the specification, section 4.4);                *)
(*   - the Tab's use of both (browser/tab/mod.rs).                         *)
(***************************************************************************)
EXTENDS Integers, Sequences, FiniteSets, TLC

(***************************************************************************)
(* Bounds of the model.                                                    *)
(***************************************************************************)
\* longest byte stream the remote end writes to the inbound pipe
MaxStream == 5
\* longest message text handed to send_message
MaxText == 2
\* most message texts handed to send_message in one run
MaxSends == 2
\* most call ids the transport allocates in one run
MaxId == 2
\* most messages waiting in the transport's inbound channel
MaxInbox == 1
\* most events waiting in one session's queue
MaxQueue == 2
\* most threads calling send_message concurrently
MaxSenders == 2
\* most events routed to the session of one Tab in one run
MaxEvents == 2
\* most generic listeners a user creates for one Tab
MaxListeners == 2
\* most calls of kill() and wait() a user makes on the pipe-mode Child
MaxApiCalls == 3
\* most lines a child writes to its error stream
MaxLines == 2
\* the timeout of a Wait, counted in poll intervals
WaitTimeout == 2
\* ports in the range get_available_port scans
MaxPorts == 2
\* most spawns one of two concurrent launches makes
MaxSpawns == 2
\* most Process instances of one program
MaxInstances == 2
\* names the temporary directory has room for
MaxNames == 3
MaxSteps == 2

(***************************************************************************)
(* Bytes.  0 is the NUL delimiter, 1 a non-NUL control byte, 123 an ASCII  *)
(* '{', and 195 169 the two bytes of a multibyte character.                *)
(***************************************************************************)
NUL == 0

Bytes == {0, 1, 123, 195, 169}

VARIABLES
  \* ---- pipe_connection.rs -------------------------------------------
  receiver,       \* bytes written by the remote end and not yet read
  remoteClosed,   \* the remote end closed the pipe: reads hit end-of-file
  message,        \* the loop's buffer `message` at the head of an iteration
  pipeState,      \* "loop" | "done" | "panicked"
  pipeExit,       \* why the loop left: "none" | "eof" | "send_failed" |
                  \*   "bad_utf8" | "io_error"
  messages_tx,    \* what the loop delivered over the mpsc channel, in order
  rxAlive,        \* the transport still holds the channel's Receiver
  written,        \* history: every byte the remote end ever wrote
  deframed,       \* history: every message_string de-framed (line 68)
  shutdownSends,  \* history: sends of ConnectionShutdown attempted
  sentTexts       \* history: the texts handed to send_message

pvars == <<receiver, remoteClosed, message, pipeState, pipeExit, messages_tx,
           rxAlive, written, deframed, shutdownSends, sentTexts>>

VARIABLES
  \* ---- Transport (specification 4.4) and Tab ---------------------------
  next_id,        \* the id counter: the id the next call gets
  pending,        \* the PendingCall table: id -> the tab whose slot it holds
  slot,           \* per tab, the completion slot of its current call
  callState,      \* per tab: "idle" | "allocated" | "registered" |
                  \*   "blocked" | "returned"
  callId,         \* per tab, the id of its current call (0: none yet)
  outcome,        \* per tab, what its call_method returned
  inbox,          \* messages the channel adapter sent, not yet handled
  adapterUp,      \* the adapter has not yet sent ConnectionShutdown
  loopState,      \* the transport's receive loop: "running" | "terminated"
  listeners,      \* the per-session subscriber registry: session -> tab
  eventQueue,     \* per tab, the queue behind its consumer handle
  observed,       \* per tab, the session tags of the events its loop took
  allocLog,       \* history: the ids allocated, in allocation order
  fulfilLog       \* history: the ids of the PendingCalls fulfilled, in order

tvars == <<next_id, pending, slot, callState, callId, outcome, inbox,
           adapterUp, loopState, listeners, eventQueue, observed, allocLog,
           fulfilLog>>

VARIABLES
  \* ---- pipe_connection.rs, send_message from several threads -----------
  writerHolder,   \* the thread holding the Mutex of `writer`, or NoThread
  sendPc,         \* per thread: "idle" | "locked" | "text" | "nul"
  sendArg,        \* per thread, the message_text of its send_message
  outbound,       \* the bytes written to `writer`, in order
  writerBroken,   \* a write or flush on the socket has failed
  sendLog         \* history: the texts, in the order their senders locked

svars == <<writerHolder, sendPc, sendArg, outbound, writerBroken, sendLog>>

VARIABLES
  \* ---- tab/mod.rs: one Tab, its session event loop and its users --------
  events,              \* incoming_events_rx: the events routed, not yet taken
  eventsOpen,          \* the sending half of that channel is alive
  emitted,             \* how many events the browser has sent to the session
  loopPc,              \* "recv" | "lock" | "dispatch" | "match" | "call" |
                       \*   "awaiting" | "finished"
  event,               \* the event of the current iteration
  event_listeners,     \* the generic listener list, in registration order
  listenersHolder,     \* who holds the Mutex of event_listeners
  interceptorHolder,   \* who holds the Mutex of request_interceptor
  fileHolder,          \* who holds the Mutex of file_handler
  atLock,              \* history: the list when the loop locked it
  invoked,             \* history: listeners invoked for the current event
  navigating,          \* the AtomicBool `navigating`
  request_interceptor, \* the installed interception policy
  auth_handler,        \* the AuthChallengeResponse in force
  file_handler,        \* the queued files
  policyCalls,         \* history: intercept() calls for the current event
  method,              \* the call the loop is making, or NoMethod
  issued,              \* history: calls the loop made for the current event
  lastResult,          \* history: result of the loop's last call
  warnings,            \* history: warn!() lines for the current event
  connOpen,            \* the transport's connection is open
  navPc,               \* navigate_to of a user thread: "idle" | "calling"
  navResult            \* history: how the last navigate_to ended

lvars == <<events, eventsOpen, emitted, loopPc, event, event_listeners,
           listenersHolder, interceptorHolder, fileHolder, atLock, invoked,
           navigating, request_interceptor, auth_handler, file_handler,
           policyCalls, method, issued, lastResult, warnings, connOpen,
           navPc, navResult>>

VARIABLES
  \* ---- process_pipe.rs: the pipe-mode Process and its Child -------------
  platform,       \* the cfg the crate was built for: "unix" | "windows"
  os,             \* the child for the OS: "running" | "zombie" | "gone"
  status,         \* unix Child.status: "none", or the WaitStatus cached
  handle,         \* windows Child.handle: "open" | "closed"
  signals,        \* history: SIGKILLs / TerminateProcess requests issued
  waitpids,       \* history: waitpid calls made
  kills,          \* history: calls of Child::kill
  lastKill,       \* history: result of the last kill(): "ok" | "err"
  lastWait,       \* history: result of the last wait()
  apiCalls,       \* calls a user made on process.child_process
  procPc,         \* "live" | "shutdown" | "kill" | "wait" | "dir" | "dropped"
  attempted,      \* history: the teardown steps attempted
  stepFailed,     \* history: the teardown steps that failed
  user_data_dir   \* the profile directory: "present" | "removed" | "stuck"

kvars == <<platform, os, status, handle, signals, waitpids, kills, lastKill,
           lastWait, apiCalls, procPc, attempted, stepFailed, user_data_dir>>

VARIABLES
  \* ---- process_ws.rs: a port-mode launch --------------------------------
  pinned,         \* launch_options.port is Some
  launchPc,       \* "start" | "loop" | "discover" | "replace" |
                  \*   "launched" | "failed" | "dropped"
  attempts,       \* the local `attempts` of Process::new
  children,       \* every child the launch spawned, in spawn order
  process,        \* the local `process`: index of its child (0: none)
  launchError,    \* the error Process::new returned
  errorFrom,      \* where it came from: "guard" | "discovery" | "spawn"
  discoveries,    \* history: calls of ws_url_from_output
  profileDir      \* the TempDir of the launch: "present" | "removed"

wvars == <<pinned, launchPc, attempts, children, process, launchError,
           errorFrom, discoveries, profileDir>>

VARIABLES
  \* ---- process_ws.rs: ws_url_from_output on one child -------------------
  stderr,         \* lines the child wrote to its error stream, not yet read
  stderrOpen,     \* the child still holds the writing end of that stream
  consumed,       \* history: the lines the reader has taken, in order
  discPc,         \* "poll" | "reading" | "sleeping" | "done"
  clock,          \* poll intervals elapsed since Wait::until was entered
  polls,          \* history: invocations of the predicate
  discResult      \* what ws_url_from_output returned, or "none"

dvars == <<stderr, stderrOpen, consumed, discPc, clock, polls, discResult>>

VARIABLES
  \* ---- process_ws.rs: two launches with auto-selected ports -------------
  bindings,       \* the bound ports: pairs <<port, owner>>, owner 0 being
                  \*   a process that is no browser of these launches
  launchers       \* per launch: pc, debug_port, child, spawns

cvars == <<bindings, launchers>>

VARIABLES
  \* ---- process_pipe.rs, process_ws.rs: the profile directories ----------
  dirs,           \* the names that exist in the temporary directory
  instances       \* per Process: mode, pc, user_data_dir

uvars == <<dirs, instances>>

VARIABLES
  \* ---- tab/mod.rs: the users of the generic listeners of the Tab --------
  strongRefs,     \* the listeners a user still holds an Arc of
  lastRemove      \* history: the listener of the last remove_event_listener

hvars == <<strongRefs, lastRemove>>

VARIABLES
  \* ---- tab/mod.rs: one wait of a user thread on the Tab -----------------
  waitKind,       \* the method that waits, or "none"
  waitPc,         \* "idle" | "poll" | "sleeping" | "returned"
  waitClock,      \* poll intervals elapsed since the Wait was entered
  yields,         \* history: what the predicate yielded, poll by poll
  lastInput,      \* history: what the calls of the latest lookup returned
  waitResult      \* what the method returned, or "none"

qvars == <<waitKind, waitPc, waitClock, yields, lastInput, waitResult>>

VARIABLES
  \* ---- launch_options.rs: one LaunchOptionsBuilder ----------------------
  builder,        \* per field, Some of the value a setter stored, or None
  options         \* Some of the LaunchOptions of the latest build()

bvars == <<builder, options>>

VARIABLES
  \* ---- tab/mouse.rs: one Mouse used by several threads ------------------
  mouse,          \* the fields x, y and button behind their Mutexes
  mouseLocks,     \* per Mutex, the thread that holds its guard, or NoThread
  mouseCalls      \* per thread: its call, the guards it holds, what it sent

mvars == <<mouse, mouseLocks, mouseCalls>>

VARIABLES
  \* ---- tab/keyboard.rs: one Keyboard ------------------------------------
  modifiers,      \* the mask behind the Mutex `modifiers`
  pressed_keys,   \* the set of codes behind the Mutex `pressed_keys`
  lastCall,       \* history: per code, the latest call for it: down or up
  lastKeyEvent    \* history: the DispatchKeyEvent of the latest call

yvars == <<modifiers, pressed_keys, lastCall, lastKeyEvent>>

\* the components of input devices and configuration
nvars == <<bvars, mvars, yvars>>

\* the variables of the other components
ovars == <<svars, lvars, kvars, wvars, dvars, cvars, uvars, hvars, qvars, nvars>>

vars == <<pvars, tvars, ovars>>

\* what the actions of one component leave alone
othersOfSend == <<pvars, tvars, lvars, kvars, wvars, dvars, cvars, uvars, hvars, qvars, nvars>>

othersOfTab == <<pvars, tvars, svars, kvars, wvars, dvars, cvars, uvars, hvars, qvars, nvars>>

othersOfListeners == <<pvars, tvars, svars, kvars, wvars, dvars, cvars, uvars, qvars, nvars>>

othersOfProcess == <<pvars, tvars, svars, lvars, wvars, dvars, cvars, uvars, hvars, qvars, nvars>>

othersOfLaunch == <<pvars, tvars, svars, lvars, kvars, dvars, cvars, uvars, hvars, qvars, nvars>>

othersOfDiscovery == <<pvars, tvars, svars, lvars, kvars, wvars, cvars, uvars, hvars, qvars, nvars>>

othersOfPorts == <<pvars, tvars, svars, lvars, kvars, wvars, dvars, uvars, hvars, qvars, nvars>>

othersOfProfiles == <<pvars, tvars, svars, lvars, kvars, wvars, dvars, cvars, hvars, qvars, nvars>>

othersOfWait == <<pvars, tvars, svars, kvars, wvars, dvars, cvars, uvars, hvars, nvars>>

othersOfOptions ==
  <<pvars, tvars, svars, lvars, kvars, wvars, dvars, cvars, uvars, hvars, qvars,
    mvars, yvars>>

othersOfMouse ==
  <<pvars, tvars, svars, lvars, kvars, wvars, dvars, cvars, uvars, hvars, qvars,
    bvars, yvars>>

othersOfKeyboard ==
  <<pvars, tvars, svars, lvars, kvars, wvars, dvars, cvars, uvars, hvars, qvars,
    bvars, mvars>>

(***************************************************************************)
(* Sequence helpers.                                                       *)
(***************************************************************************)
RECURSIVE FirstIndex(_, _, _)
\* the least index >= i of byte b in s, or 0
FirstIndex(s, b, i) ==
  IF i > Len(s) THEN 0
  ELSE IF s[i] = b THEN i
  ELSE FirstIndex(s, b, i + 1)

HasNul(s) == FirstIndex(s, NUL, 1) # 0

IsPrefix(p, s) == Len(p) <= Len(s) /\ SubSeq(s, 1, Len(p)) = p

Last(s) == s[Len(s)]

(***************************************************************************)
(* std::str::from_utf8 on the bytes of the model: one-byte characters      *)
(* (below 128) and two-byte characters (a lead byte 194..223 followed by   *)
(* a continuation byte 128..191); everything else is rejected.             *)
(***************************************************************************)
RECURSIVE ValidUtf8From(_, _)
ValidUtf8From(s, i) ==
  IF i > Len(s) THEN TRUE
  ELSE IF s[i] < 128 THEN ValidUtf8From(s, i + 1)
  ELSE IF s[i] >= 194 /\ s[i] <= 223
       THEN /\ i + 1 <= Len(s)
            /\ s[i + 1] >= 128 /\ s[i + 1] <= 191
            /\ ValidUtf8From(s, i + 2)
  ELSE FALSE

ValidUtf8(s) == ValidUtf8From(s, 1)

(***************************************************************************)
(* protocol::parse_raw_message.  The wire format is a JSON object; in the  *)
(* model a text is recognised as a message exactly when it opens one.      *)
(***************************************************************************)
Recognised(text) == Len(text) > 0 /\ text[1] = 123

ParsedMessage(text) == [tag |-> "Message", text |-> text]

ConnectionShutdown == [tag |-> "ConnectionShutdown", text |-> <<>>]

(***************************************************************************)
(* SocketConnection::send_message: the text's bytes, then one NUL.         *)
(***************************************************************************)
SendMessageNoDelimiter(message_text) == message_text

send_message(message_text) == message_text \o <<NUL>>

(***************************************************************************)
(* BufRead::read_until(0, &mut message): appends to the buffer every byte  *)
(* up to and including the first NUL, or up to end-of-file.                *)
(***************************************************************************)
read_until(buf, stream) ==
  LET k == FirstIndex(stream, NUL, 1)
      n == IF k # 0 THEN k ELSE Len(stream)
  IN  [read |-> n,
       buf  |-> buf \o SubSeq(stream, 1, n),
       rest |-> SubSeq(stream, n + 1, Len(stream))]

\* message.truncate(message.len() - 1)
Truncate(buf) == SubSeq(buf, 1, Len(buf) - 1)

\* the buffer at the head of the next iteration: message.clear() is reached
\* on the forwarding path and on the unrecognised path alike
ClearOnlyWhenForwarded(buf, forwarded) == IF forwarded THEN <<>> ELSE buf

NextBuffer(buf, forwarded) == <<>>

\* the code after the loop: one send of ConnectionShutdown, which fails
\* (and is only logged) when the Receiver is gone
AfterLoopNoSentinel(tx, alive) == [tx |-> tx, sends |-> 0]

AfterLoop(tx, alive) ==
  [tx    |-> IF alive THEN Append(tx, ConnectionShutdown) ELSE tx,
   sends |-> 1]

(***************************************************************************)
(* One iteration of the loop of dispatch_incoming_messages, with the code  *)
(* after the loop when the iteration breaks out of it.                     *)
(***************************************************************************)
Iteration(buf, stream, tx, alive) ==
  LET r == read_until(buf, stream) IN
  IF r.read = 0
  THEN \* end-of-file: break
       LET a == AfterLoop(tx, alive) IN
       [state |-> "done", exit |-> "eof", message |-> r.buf, rest |-> r.rest,
        tx |-> a.tx, sends |-> a.sends, text |-> <<>>]
  ELSE
    LET body == Truncate(r.buf) IN
    IF ~ValidUtf8(body)
    THEN \* panic!("Got a weird message")
         [state |-> "panicked", exit |-> "bad_utf8", message |-> body,
          rest |-> r.rest, tx |-> tx, sends |-> 0, text |-> <<>>]
    ELSE IF Recognised(body)
    THEN IF alive
         THEN [state |-> "loop", exit |-> "none",
               message |-> NextBuffer(body, TRUE), rest |-> r.rest,
               tx |-> Append(tx, ParsedMessage(body)), sends |-> 0,
               text |-> <<body>>]
         ELSE \* messages_tx.send(message).is_err(): break
              LET a == AfterLoop(tx, alive) IN
              [state |-> "done", exit |-> "send_failed", message |-> body,
               rest |-> r.rest, tx |-> a.tx, sends |-> a.sends,
               text |-> <<body>>]
    ELSE \* not recognised: traced, dropped
         [state |-> "loop", exit |-> "none",
          message |-> NextBuffer(body, FALSE), rest |-> r.rest,
          tx |-> tx, sends |-> 0, text |-> <<body>>]

dispatch_incoming_messages ==
  /\ pipeState = "loop"
  \* read_until blocks until a NUL has arrived or the stream has ended
  /\ HasNul(receiver) \/ remoteClosed
  /\ LET it == Iteration(message, receiver, messages_tx, rxAlive) IN
     /\ receiver' = it.rest
     /\ message' = it.message
     /\ pipeState' = it.state
     /\ pipeExit' = it.exit
     /\ messages_tx' = it.tx
     /\ shutdownSends' = shutdownSends + it.sends
     /\ deframed' = deframed \o it.text
  /\ UNCHANGED <<remoteClosed, rxAlive, written, sentTexts>>
  /\ UNCHANGED <<tvars, ovars>>

\* read_until returns Err: .expect("Problem reading pipe") panics the thread
ReadFails ==
  /\ pipeState = "loop"
  /\ pipeState' = "panicked"
  /\ pipeExit' = "io_error"
  /\ UNCHANGED <<receiver, remoteClosed, message, messages_tx, rxAlive,
                 written, deframed, shutdownSends, sentTexts>>
  /\ UNCHANGED <<tvars, ovars>>

(***************************************************************************)
(* The environment of the receive loop.                                    *)
(***************************************************************************)
\* the remote end writes one byte
RemoteWrite(b) ==
  /\ ~remoteClosed
  /\ Len(written) < MaxStream
  /\ receiver' = Append(receiver, b)
  /\ written' = Append(written, b)
  /\ UNCHANGED <<remoteClosed, message, pipeState, pipeExit, messages_tx,
                 rxAlive, deframed, shutdownSends, sentTexts>>
  /\ UNCHANGED <<tvars, ovars>>

\* the remote end closes the pipe (or teardown shuts the socket down)
RemoteClose ==
  /\ ~remoteClosed
  /\ remoteClosed' = TRUE
  /\ UNCHANGED <<receiver, message, pipeState, pipeExit, messages_tx,
                 rxAlive, written, deframed, shutdownSends, sentTexts>>
  /\ UNCHANGED <<tvars, ovars>>

\* the transport drops the channel's Receiver
RxDrop ==
  /\ rxAlive
  /\ pipeState = "loop"
  /\ rxAlive' = FALSE
  /\ UNCHANGED <<receiver, remoteClosed, message, pipeState, pipeExit,
                 messages_tx, written, deframed, shutdownSends, sentTexts>>
  /\ UNCHANGED <<tvars, ovars>>

PipeInit ==
  /\ receiver = <<>>
  /\ remoteClosed = FALSE
  /\ message = <<>>
  /\ pipeState = "loop"
  /\ pipeExit = "none"
  /\ messages_tx = <<>>
  /\ rxAlive = TRUE
  /\ written = <<>>
  /\ deframed = <<>>
  /\ shutdownSends = 0
  /\ sentTexts = <<>>

PipeNext ==
  \/ \E b \in Bytes : RemoteWrite(b)
  \/ RemoteClose
  \/ RxDrop
  \/ ReadFails
  \/ dispatch_incoming_messages


(***************************************************************************)
(* The framing round trip: what send_message writes is what the receive    *)
(* loop reads.  A text is a &str: valid UTF-8, which may hold a NUL.       *)
(***************************************************************************)
\* the bytes after the opening '{' of a text
PayloadBytes == {0, 1, 195, 169}

ByteSeqs(n) == UNION {[1..k -> PayloadBytes] : k \in 0..n}

\* the texts handed to send_message: serialised JSON objects
Texts == {<<123>> \o p : p \in {q \in ByteSeqs(MaxText) : ValidUtf8(q)}}

SendMessage(text) ==
  /\ ~remoteClosed
  /\ Len(sentTexts) < MaxSends
  /\ sentTexts' = Append(sentTexts, text)
  /\ receiver' = receiver \o send_message(text)
  /\ written' = written \o send_message(text)
  /\ UNCHANGED <<remoteClosed, message, pipeState, pipeExit, messages_tx,
                 rxAlive, deframed, shutdownSends>>
  /\ UNCHANGED <<tvars, ovars>>

FramingNext ==
  \/ \E text \in Texts : SendMessage(text)
  \/ RemoteClose
  \/ dispatch_incoming_messages


(***************************************************************************)
(* The Transport (specification 4.4) as the Tabs use it.  Two tabs, each   *)
(* attached with its own session id, share one transport.                  *)
(***************************************************************************)
Tabs == {"t1", "t2"}

Sessions == {"s1", "s2"}

\* the session id Tab::new got from AttachToTarget
SessionOf(t) == IF t = "t1" THEN "s1" ELSE "s2"

\* session tags the browser may put on an event: the attached sessions and
\* one no consumer listens to
EventTags == Sessions \cup {"s0"}

Ids == 1..MaxId

Empty == [kind |-> "Empty", id |-> 0]

TransportClosed == [kind |-> "TransportClosed", id |-> 0]

\* what a MethodResponse becomes for the caller: the result, or a
\* RemoteError when the browser returned an error object
Completion(resp) ==
  [kind |-> IF resp.ok THEN "Result" ELSE "RemoteError", id |-> resp.id]

MethodResponse(id, ok) == [type |-> "Response", id |-> id, ok |-> ok, session |-> "-"]

EventMessage(s) == [type |-> "Event", id |-> 0, ok |-> TRUE, session |-> s]

ShutdownMessage == [type |-> "ConnectionShutdown", id |-> 0, ok |-> TRUE, session |-> "-"]

\* a function without the key k
Without(f, k) == [x \in DOMAIN f \ {k} |-> f[x]]

\* a function with key k bound to v (an insert that replaces)
With(f, k, v) == [x \in DOMAIN f \cup {k} |-> IF x = k THEN v ELSE f[x]]

\* ---- the id counter ------------------------------------------------------
CounterStuck(n) == n

\* the counter after an allocation
CounterAfter(n) == n + 1

\* ---- the PendingCall table -----------------------------------------------
ResolveOldest(table, id) ==
  IF DOMAIN table = {} THEN 0
  ELSE CHOOSE i \in DOMAIN table : \A j \in DOMAIN table : i <= j

\* the PendingCall a MethodResponse with this id fulfils (0: none)
ResolveCall(table, id) == IF id \in DOMAIN table THEN id ELSE 0

KeepFulfilled(table, id) == table

\* the table once the PendingCall id has been fulfilled
RemoveCall(table, id) == Without(table, id)

CancelNothing(table, slots) == slots

\* the slots once every outstanding PendingCall is fulfilled with
\* TransportClosed
CancelOutstanding(table, slots) ==
  [t \in Tabs |->
     IF \E i \in DOMAIN table : table[i] = t THEN TransportClosed
     ELSE slots[t]]

SendNeverFails(up, loop) == {TRUE}

\* whether sending a frame can succeed: not once the transport has shut
\* down; after the remote end closed, the write may or may not fail
SendOutcomes(up, loop) ==
  IF loop = "terminated" THEN {FALSE}
  ELSE IF up THEN {TRUE}
  ELSE {TRUE, FALSE}

\* ---- call_method ---------------------------------------------------------
\* allocates a fresh id
CallAllocate(t) ==
  /\ callState[t] \in {"idle", "returned"}
  /\ next_id <= MaxId
  /\ callId' = [callId EXCEPT ![t] = next_id]
  /\ next_id' = CounterAfter(next_id)
  /\ allocLog' = Append(allocLog, next_id)
  /\ callState' = [callState EXCEPT ![t] = "allocated"]
  /\ outcome' = [outcome EXCEPT ![t] = Empty]
  /\ slot' = [slot EXCEPT ![t] = Empty]
  /\ UNCHANGED <<pending, inbox, adapterUp, loopState, listeners, eventQueue,
                 observed, fulfilLog>>
  /\ UNCHANGED <<pvars, ovars>>

\* registers a PendingCall
CallRegister(t) ==
  /\ callState[t] = "allocated"
  /\ pending' = With(pending, callId[t], t)
  /\ callState' = [callState EXCEPT ![t] = "registered"]
  /\ UNCHANGED <<next_id, slot, callId, outcome, inbox, adapterUp, loopState,
                 listeners, eventQueue, observed, allocLog, fulfilLog>>
  /\ UNCHANGED <<pvars, ovars>>

\* sends the frame; a failed send takes the PendingCall back and fails the
\* call with TransportClosed
CallSend(t) ==
  /\ callState[t] = "registered"
  /\ \E sent \in SendOutcomes(adapterUp, loopState) :
       IF sent
       THEN /\ callState' = [callState EXCEPT ![t] = "blocked"]
            /\ UNCHANGED <<pending, outcome>>
       ELSE /\ callState' = [callState EXCEPT ![t] = "returned"]
            /\ outcome' = [outcome EXCEPT ![t] = TransportClosed]
            /\ pending' = IF callId[t] \in DOMAIN pending /\ pending[callId[t]] = t
                          THEN Without(pending, callId[t]) ELSE pending
  /\ UNCHANGED <<next_id, slot, callId, inbox, adapterUp, loopState,
                 listeners, eventQueue, observed, allocLog, fulfilLog>>
  /\ UNCHANGED <<pvars, ovars>>

\* blocks the caller until fulfilled; Tab::call_method returns the result
CallReturn(t) ==
  /\ callState[t] = "blocked"
  /\ slot[t] # Empty
  /\ outcome' = [outcome EXCEPT ![t] = slot[t]]
  /\ callState' = [callState EXCEPT ![t] = "returned"]
  /\ UNCHANGED <<next_id, pending, slot, callId, inbox, adapterUp, loopState,
                 listeners, eventQueue, observed, allocLog, fulfilLog>>
  /\ UNCHANGED <<pvars, ovars>>

\* ---- the receive loop, per inbound frame ---------------------------------
HandleResponse ==
  /\ loopState = "running"
  /\ inbox # <<>>
  /\ Head(inbox).type = "Response"
  /\ inbox' = Tail(inbox)
  /\ LET resp == Head(inbox)
         hit  == ResolveCall(pending, resp.id)
     IN  IF hit # 0
         THEN /\ slot' = [slot EXCEPT ![pending[hit]] = Completion(resp)]
              /\ pending' = RemoveCall(pending, hit)
              /\ fulfilLog' = Append(fulfilLog, hit)
         ELSE \* unknown or already fulfilled: traced, no-op
              UNCHANGED <<slot, pending, fulfilLog>>
  /\ UNCHANGED <<next_id, callState, callId, outcome, adapterUp, loopState,
                 listeners, eventQueue, observed, allocLog>>
  /\ UNCHANGED <<pvars, ovars>>

HandleEvent ==
  /\ loopState = "running"
  /\ inbox # <<>>
  /\ Head(inbox).type = "Event"
  /\ inbox' = Tail(inbox)
  /\ LET s == Head(inbox).session IN
     IF s \in DOMAIN listeners
     THEN eventQueue' = [eventQueue EXCEPT ![listeners[s]] = Append(@, s)]
     ELSE \* unroutable: traced, dropped
          UNCHANGED eventQueue
  /\ UNCHANGED <<next_id, pending, slot, callState, callId, outcome,
                 adapterUp, loopState, listeners, observed, allocLog,
                 fulfilLog>>
  /\ UNCHANGED <<pvars, ovars>>

HandleShutdown ==
  /\ loopState = "running"
  /\ inbox # <<>>
  /\ Head(inbox).type = "ConnectionShutdown"
  /\ inbox' = Tail(inbox)
  /\ slot' = CancelOutstanding(pending, slot)
  /\ pending' = <<>>
  /\ loopState' = "terminated"
  /\ UNCHANGED <<next_id, callState, callId, outcome, adapterUp, listeners,
                 eventQueue, observed, allocLog, fulfilLog>>
  /\ UNCHANGED <<pvars, ovars>>

\* ---- Tab::start_event_handler_thread -------------------------------------
ListenFirstSession(t) == "s1"

\* the session the tab asks listen_to_target_events for: its own
ListenSession(t) == SessionOf(t)

\* registers the tab's consumer
start_event_handler_thread(t) ==
  /\ \A s \in DOMAIN listeners : listeners[s] # t
  /\ listeners' = With(listeners, ListenSession(t), t)
  /\ UNCHANGED <<next_id, pending, slot, callState, callId, outcome, inbox,
                 adapterUp, loopState, eventQueue, observed, allocLog,
                 fulfilLog>>
  /\ UNCHANGED <<pvars, ovars>>

\* one turn of `for event in incoming_events_rx`
EventLoop(t) ==
  /\ eventQueue[t] # <<>>
  /\ observed' = [observed EXCEPT ![t] = @ \cup {Head(eventQueue[t])}]
  /\ eventQueue' = [eventQueue EXCEPT ![t] = Tail(@)]
  /\ UNCHANGED <<next_id, pending, slot, callState, callId, outcome, inbox,
                 adapterUp, loopState, listeners, allocLog, fulfilLog>>
  /\ UNCHANGED <<pvars, ovars>>

\* ---- the browser and the channel adapter ---------------------------------
BrowserResponds(id, ok) ==
  /\ adapterUp
  /\ Len(inbox) < MaxInbox
  /\ inbox' = Append(inbox, MethodResponse(id, ok))
  /\ UNCHANGED <<next_id, pending, slot, callState, callId, outcome,
                 adapterUp, loopState, listeners, eventQueue, observed,
                 allocLog, fulfilLog>>
  /\ UNCHANGED <<pvars, ovars>>

BrowserEmits(s) ==
  /\ adapterUp
  /\ Len(inbox) < MaxInbox
  /\ s \in DOMAIN listeners => Len(eventQueue[listeners[s]]) < MaxQueue
  /\ inbox' = Append(inbox, EventMessage(s))
  /\ UNCHANGED <<next_id, pending, slot, callState, callId, outcome,
                 adapterUp, loopState, listeners, eventQueue, observed,
                 allocLog, fulfilLog>>
  /\ UNCHANGED <<pvars, ovars>>

\* the adapter's receive loop ends: its last message is the sentinel
AdapterShutsDown ==
  /\ adapterUp
  /\ adapterUp' = FALSE
  /\ inbox' = Append(inbox, ShutdownMessage)
  /\ UNCHANGED <<next_id, pending, slot, callState, callId, outcome,
                 loopState, listeners, eventQueue, observed, allocLog,
                 fulfilLog>>
  /\ UNCHANGED <<pvars, ovars>>

TransportInit ==
  /\ next_id = 1
  /\ pending = <<>>
  /\ slot = [t \in Tabs |-> Empty]
  /\ callState = [t \in Tabs |-> "idle"]
  /\ callId = [t \in Tabs |-> 0]
  /\ outcome = [t \in Tabs |-> Empty]
  /\ inbox = <<>>
  /\ adapterUp = TRUE
  /\ loopState = "running"
  /\ listeners = <<>>
  /\ eventQueue = [t \in Tabs |-> <<>>]
  /\ observed = [t \in Tabs |-> {}]
  /\ allocLog = <<>>
  /\ fulfilLog = <<>>

\* calls and their responses
CallNext ==
  \/ \E t \in Tabs : CallAllocate(t)
  \/ \E t \in Tabs : CallRegister(t)
  \/ \E t \in Tabs : CallSend(t)
  \/ \E t \in Tabs : CallReturn(t)
  \/ HandleResponse
  \/ HandleShutdown
  \/ \E id \in Ids, ok \in BOOLEAN : BrowserResponds(id, ok)
  \/ AdapterShutsDown

\* events and their consumers
EventNext ==
  \/ HandleEvent
  \/ HandleShutdown
  \/ \E t \in Tabs : start_event_handler_thread(t)
  \/ \E t \in Tabs : EventLoop(t)
  \/ \E s \in EventTags : BrowserEmits(s)
  \/ AdapterShutsDown

(***************************************************************************)
(* send_message called from several threads (pipe_connection.rs 92-98).    *)
(* The text and the delimiter are two writes to the BufWriter behind the   *)
(* Mutex `writer`; the guard taken on line 93 lives to the end of the      *)
(* function, so it is released on every return, the `?` returns included.  *)
(* A failed write leaves the socket broken: later writes fail as well.     *)
(***************************************************************************)
Senders == 1..MaxSenders

NoThread == 0

\* the message texts the threads send: one is a prefix of the other
SenderTexts == {<<123>>, <<123, 1>>}

\* a mutex that excludes nobody
WriterNeverHeld(holder) == TRUE

\* line 93: lock() returns once no other thread holds the Mutex
WriterAvailable(holder) == holder = NoThread

\* line 93: self.writer.lock().unwrap()
SendLock(th, text) ==
  /\ sendPc[th] = "idle"
  /\ Len(sendLog) < MaxSends
  /\ WriterAvailable(writerHolder)
  /\ writerHolder' = th
  /\ sendPc' = [sendPc EXCEPT ![th] = "locked"]
  /\ sendArg' = [sendArg EXCEPT ![th] = text]
  /\ sendLog' = Append(sendLog, text)
  /\ UNCHANGED <<outbound, writerBroken>>
  /\ UNCHANGED othersOfSend

\* a write that fails gets k bytes out, returns by `?` and drops the guard
SendFails(th, bytes, k) ==
  /\ outbound' = outbound \o SubSeq(bytes, 1, k)
  /\ writerBroken' = TRUE
  /\ writerHolder' = NoThread
  /\ sendPc' = [sendPc EXCEPT ![th] = "idle"]

\* line 94: writer.write_all(message_text.as_bytes())?
SendWriteText(th) ==
  /\ sendPc[th] = "locked"
  /\ \/ /\ ~writerBroken
        /\ outbound' = outbound \o sendArg[th]
        /\ sendPc' = [sendPc EXCEPT ![th] = "text"]
        /\ UNCHANGED <<writerHolder, writerBroken>>
     \/ \E k \in 0..(Len(sendArg[th]) - 1) :
          /\ writerBroken => k = 0
          /\ SendFails(th, sendArg[th], k)
  /\ UNCHANGED <<sendArg, sendLog>>
  /\ UNCHANGED othersOfSend

\* line 95: writer.write_all(&[0])?
SendWriteNul(th) ==
  /\ sendPc[th] = "text"
  /\ \/ /\ ~writerBroken
        /\ outbound' = outbound \o <<NUL>>
        /\ sendPc' = [sendPc EXCEPT ![th] = "nul"]
        /\ UNCHANGED <<writerHolder, writerBroken>>
     \/ SendFails(th, <<NUL>>, 0)
  /\ UNCHANGED <<sendArg, sendLog>>
  /\ UNCHANGED othersOfSend

\* lines 96-97: writer.flush()?; Ok(()) -- the guard is dropped on return
SendFlush(th) ==
  /\ sendPc[th] = "nul"
  /\ writerHolder' = NoThread
  /\ sendPc' = [sendPc EXCEPT ![th] = "idle"]
  /\ \/ UNCHANGED writerBroken
     \/ writerBroken' = TRUE
  /\ UNCHANGED <<sendArg, outbound, sendLog>>
  /\ UNCHANGED othersOfSend

SendInit ==
  /\ writerHolder = NoThread
  /\ sendPc = [th \in Senders |-> "idle"]
  /\ sendArg = [th \in Senders |-> <<>>]
  /\ outbound = <<>>
  /\ writerBroken = FALSE
  /\ sendLog = <<>>

SendNext ==
  \/ \E th \in Senders, text \in SenderTexts : SendLock(th, text)
  \/ \E th \in Senders : SendWriteText(th)
  \/ \E th \in Senders : SendWriteNul(th)
  \/ \E th \in Senders : SendFlush(th)

(***************************************************************************)
(* The session event loop of one Tab (tab/mod.rs 244-370) and the          *)
(* operations of the Tab's users that share state with it.                 *)
(***************************************************************************)
Unlocked == "none"

\* the names of lifecycle events: the two the loop acts on, and another
LifecycleNames == {"init", "networkAlmostIdle", "load"}

RequestIds == {1, 2}

Lifecycle(n) ==
  [kind |-> "Lifecycle", name |-> n, request_id |-> 0, backend_node_id |-> 0]

RequestPaused(r) ==
  [kind |-> "RequestPaused", name |-> "", request_id |-> r,
   backend_node_id |-> 0]

AuthRequired(r) ==
  [kind |-> "AuthRequired", name |-> "", request_id |-> r,
   backend_node_id |-> 0]

\* the input element whose chooser opened (file.params.backend_node_id)
BackendNodeIds == {1, 2}

FileChooserOpened(n) ==
  [kind |-> "FileChooserOpened", name |-> "", request_id |-> 0,
   backend_node_id |-> n]

\* an event of a category the loop does not act on (the `_` arm)
OtherEvent ==
  [kind |-> "Other", name |-> "", request_id |-> 0, backend_node_id |-> 0]

NoEvent ==
  [kind |-> "none", name |-> "", request_id |-> 0, backend_node_id |-> 0]

\* the interception policies: the one Tab::new installs (lines 176-178) and
\* one user policy per variant of RequestPausedDecision
Policies == {"default", "continue_with", "fulfil", "fail"}

\* the usernames/passwords a user passes to authenticate()
Credentials == {1, 2}

NoCredentials == 0

\* lines 180-183: response "Default", the other fields defaulted
DefaultAuth == [response |-> "Default", credentials |-> NoCredentials]

\* the paths a user queues with set_files: one exists, one does not
FileLists == {<<>>, <<"present">>, <<"absent">>, <<"present", "absent">>}

\* lines 341-345: the queued paths that exist
ExistingFiles(files) == SelectSeq(files, LAMBDA f : f = "present")

NoMethod ==
  [method |-> "none", request_id |-> 0, overrides |-> FALSE,
   auth |-> DefaultAuth, files |-> <<>>, backend_node_id |-> 0]

\* lines 294-297: ContinueRequest { request_id, ..Default::default() }
ContinueRequest(r) == [NoMethod EXCEPT !.method = "Fetch.continueRequest",
                                       !.request_id = r]

\* lines 279-283: the decision of the installed policy for an event
intercept(policy, ev) ==
  CASE policy = "default" -> [decision |-> "Continue", request |-> NoMethod]
    [] policy = "continue_with" ->
         [decision |-> "Continue",
          request |-> [ContinueRequest(ev.request_id)
                         EXCEPT !.overrides = TRUE]]
    [] policy = "fulfil" ->
         [decision |-> "Fulfil",
          request |-> [NoMethod EXCEPT !.method = "Fetch.fulfillRequest",
                                       !.request_id = ev.request_id]]
    [] policy = "fail" ->
         [decision |-> "Fail",
          request |-> [NoMethod EXCEPT !.method = "Fetch.failRequest",
                                       !.request_id = ev.request_id]]

\* the default continue built without the request id of the event
ResolutionWithoutRequestId(decision, ev) ==
  IF decision.decision = "Continue" /\ decision.request = NoMethod
    THEN ContinueRequest(0)
    ELSE decision.request

\* lines 284-308: the call that resolves the event, by decision
Resolution(decision, ev) ==
  IF decision.decision = "Continue" /\ decision.request = NoMethod
    THEN ContinueRequest(ev.request_id)
    ELSE decision.request

\* a reply that leaves the installed policy out
ContinueWithDefault(r, auth) ==
  [NoMethod EXCEPT !.method = "Fetch.continueWithAuth", !.request_id = r]

\* lines 316-320: ContinueWithAuth { request_id, auth_challenge_response }
ContinueWithAuth(r, auth) ==
  [NoMethod EXCEPT !.method = "Fetch.continueWithAuth", !.request_id = r,
                   !.auth = auth]

\* a resolution that names no input element
SetFileInputFilesOfNoNode(files, node) ==
  [NoMethod EXCEPT !.method = "DOM.setFileInputFiles", !.files = files]

\* lines 347-352: SetFileInputFiles { files, backend_node_id, .. }
SetFileInputFiles(files, node) ==
  [NoMethod EXCEPT !.method = "DOM.setFileInputFiles", !.files = files,
                   !.backend_node_id = node]

\* a mutex on the listener list that excludes nobody
ListenersNeverHeld(holder) == TRUE

\* lines 259, 977, 988: lock() returns once nobody holds the Mutex
ListenersAvailable(holder) == holder = Unlocked

\* a failed resolution propagated out of the loop, as `?` would
ResolutionErrorEndsLoop(result) == IF result = "ok" THEN "recv" ELSE "finished"

\* lines 309-311, 322-324, 356-358: a failed call is only logged; either way
\* the iteration ends and the loop takes the next event
AfterResolution(result) == "recv"

\* the flag stored before the navigate result is looked at
NavigateStoresAlways(result) == TRUE

\* lines 402-408: `?` on the call, return on error_text, then store(true)
NavigateStores(result) == result = "ok"

\* the end of an iteration: every guard of the iteration is dropped
EndIteration ==
  /\ listenersHolder' = IF listenersHolder = "loop" THEN Unlocked
                        ELSE listenersHolder
  /\ interceptorHolder' = IF interceptorHolder = "loop" THEN Unlocked
                          ELSE interceptorHolder
  /\ fileHolder' = IF fileHolder = "loop" THEN Unlocked ELSE fileHolder
  /\ method' = NoMethod

\* line 258: for event in incoming_events_rx
LoopRecv ==
  /\ loopPc = "recv"
  /\ \/ /\ events # <<>>
        /\ event' = Head(events)
        /\ events' = Tail(events)
        /\ loopPc' = "lock"
     \/ /\ events = <<>> /\ ~eventsOpen
        /\ loopPc' = "finished"
        /\ UNCHANGED <<event, events>>
  /\ invoked' = <<>>
  /\ atLock' = <<>>
  /\ policyCalls' = 0
  /\ issued' = <<>>
  /\ warnings' = 0
  /\ UNCHANGED <<eventsOpen, emitted, event_listeners, listenersHolder,
                 interceptorHolder, fileHolder, navigating,
                 request_interceptor, auth_handler, file_handler, method,
                 lastResult, connOpen, navPc, navResult>>
  /\ UNCHANGED othersOfTab

\* line 259: let listeners = listeners_mutex.lock().unwrap()
LoopLock ==
  /\ loopPc = "lock"
  /\ ListenersAvailable(listenersHolder)
  /\ listenersHolder' = "loop"
  /\ atLock' = event_listeners
  /\ loopPc' = IF event_listeners = <<>> THEN "match" ELSE "dispatch"
  /\ UNCHANGED <<events, eventsOpen, emitted, event, event_listeners,
                 interceptorHolder, fileHolder, invoked, navigating,
                 request_interceptor, auth_handler, file_handler, policyCalls,
                 method, issued, lastResult, warnings, connOpen, navPc,
                 navResult>>
  /\ UNCHANGED othersOfTab

\* lines 260-262: listeners.iter().for_each(|l| l.on_event(&event)), one
\* listener per step
LoopDispatch ==
  /\ loopPc = "dispatch"
  /\ LET i == Len(invoked) + 1 IN
       IF i <= Len(event_listeners)
         THEN /\ invoked' = Append(invoked, event_listeners[i])
              /\ loopPc' = IF i + 1 <= Len(event_listeners) THEN "dispatch"
                           ELSE "match"
         ELSE /\ loopPc' = "match"
              /\ UNCHANGED invoked
  /\ UNCHANGED <<events, eventsOpen, emitted, event, event_listeners,
                 listenersHolder, interceptorHolder, fileHolder, atLock,
                 navigating, request_interceptor, auth_handler, file_handler,
                 policyCalls, method, issued, lastResult, warnings, connOpen,
                 navPc, navResult>>
  /\ UNCHANGED othersOfTab

\* what lock() does on a std Mutex its own thread holds: it does not
\* return; the thread blocks for ever or panics (the guard it held is
\* dropped by the unwinding and the Mutex poisoned)
RelockOutcomes == {"deadlock", "panic"}

\* lines 260-262 with a listener that calls add_event_listener or
\* remove_event_listener of its own Tab from on_event: lines 977 and 988
\* lock event_listeners on the thread of the loop, which holds it since
\* line 259
LoopDispatchReenters(op) ==
  /\ loopPc = "dispatch"
  /\ Len(invoked) + 1 <= Len(event_listeners)
  /\ listenersHolder = "loop"
  /\ invoked' = Append(invoked, event_listeners[Len(invoked) + 1])
  /\ op \in {"add_event_listener", "remove_event_listener"}
  /\ \E stuck \in RelockOutcomes :
       /\ loopPc' = stuck
       /\ listenersHolder' = IF stuck = "panic" THEN "poisoned" ELSE "loop"
  /\ UNCHANGED <<events, eventsOpen, emitted, event, event_listeners,
                 interceptorHolder, fileHolder, atLock, navigating,
                 request_interceptor, auth_handler, file_handler, policyCalls,
                 method, issued, lastResult, warnings, connOpen, navPc,
                 navResult>>
  /\ UNCHANGED strongRefs
  /\ UNCHANGED lastRemove
  /\ UNCHANGED othersOfListeners

\* lines 264-276: Event::Lifecycle
LoopLifecycle ==
  /\ loopPc = "match" /\ event.kind = "Lifecycle"
  /\ navigating' = CASE event.name = "networkAlmostIdle" -> FALSE
                     [] event.name = "init" -> TRUE
                     [] OTHER -> navigating
  /\ EndIteration
  /\ loopPc' = "recv"
  /\ UNCHANGED <<events, eventsOpen, emitted, event, event_listeners, atLock,
                 invoked, request_interceptor, auth_handler, file_handler,
                 policyCalls, issued, lastResult, warnings, connOpen, navPc,
                 navResult>>
  /\ UNCHANGED othersOfTab

\* lines 277-308: Event::RequestPaused, up to the choice of the call
LoopRequestPaused ==
  /\ loopPc = "match" /\ event.kind = "RequestPaused"
  /\ interceptorHolder = Unlocked
  /\ interceptorHolder' = "loop"
  /\ policyCalls' = policyCalls + 1
  /\ method' = Resolution(intercept(request_interceptor, event), event)
  /\ loopPc' = "call"
  /\ UNCHANGED <<events, eventsOpen, emitted, event, event_listeners,
                 listenersHolder, fileHolder, atLock, invoked, navigating,
                 request_interceptor, auth_handler, file_handler, issued,
                 lastResult, warnings, connOpen, navPc, navResult>>
  /\ UNCHANGED othersOfTab

\* lines 313-320: Event::AuthRequired, up to the call; the guard of
\* auth_handler is a temporary of line 314
LoopAuthRequired ==
  /\ loopPc = "match" /\ event.kind = "AuthRequired"
  /\ method' = ContinueWithAuth(event.request_id, auth_handler)
  /\ loopPc' = "call"
  /\ UNCHANGED <<events, eventsOpen, emitted, event, event_listeners,
                 listenersHolder, interceptorHolder, fileHolder, atLock,
                 invoked, navigating, request_interceptor, auth_handler,
                 file_handler, policyCalls, issued, lastResult, warnings,
                 connOpen, navPc, navResult>>
  /\ UNCHANGED othersOfTab

\* lines 338-352: Event::FileChooserOpened, up to the call
LoopFileChooser ==
  /\ loopPc = "match" /\ event.kind = "FileChooserOpened"
  /\ fileHolder = Unlocked
  /\ IF ExistingFiles(file_handler) # <<>>
       THEN /\ fileHolder' = "loop"
            /\ method' = SetFileInputFiles(ExistingFiles(file_handler),
                                         event.backend_node_id)
            /\ loopPc' = "call"
            /\ UNCHANGED <<listenersHolder, interceptorHolder>>
       ELSE /\ EndIteration
            /\ loopPc' = "recv"
  /\ UNCHANGED <<events, eventsOpen, emitted, event, event_listeners, atLock,
                 invoked, navigating, request_interceptor, auth_handler,
                 file_handler, policyCalls, issued, lastResult, warnings,
                 connOpen, navPc, navResult>>
  /\ UNCHANGED othersOfTab

\* lines 361-365: any other event is only traced
LoopOther ==
  /\ loopPc = "match" /\ event.kind = "Other"
  /\ EndIteration
  /\ loopPc' = "recv"
  /\ UNCHANGED <<events, eventsOpen, emitted, event, event_listeners, atLock,
                 invoked, navigating, request_interceptor, auth_handler,
                 file_handler, policyCalls, issued, lastResult, warnings,
                 connOpen, navPc, navResult>>
  /\ UNCHANGED othersOfTab

\* the loop has the result of its call: warn!() on an error, end of the arm
LoopResult(result) ==
  /\ lastResult' = result
  /\ warnings' = IF result = "ok" THEN warnings ELSE warnings + 1
  /\ loopPc' = AfterResolution(result)
  /\ EndIteration

\* transport.call_method_on_target(..) of lines 287-307, 321, 353-354: the
\* call is sent and the thread blocks for the reply, or the send fails
LoopCall ==
  /\ loopPc = "call"
  /\ issued' = Append(issued, method)
  /\ IF connOpen
       THEN /\ loopPc' = "awaiting"
            /\ UNCHANGED <<lastResult, warnings, listenersHolder,
                           interceptorHolder, fileHolder, method>>
       ELSE LoopResult("closed")
  /\ UNCHANGED <<events, eventsOpen, emitted, event, event_listeners, atLock,
                 invoked, navigating, request_interceptor, auth_handler,
                 file_handler, policyCalls, connOpen, navPc, navResult>>
  /\ UNCHANGED othersOfTab

\* the blocked call returns: the browser's reply, or TransportClosed
LoopCallReturns(result) ==
  /\ loopPc = "awaiting"
  /\ (result = "closed") <=> ~connOpen
  /\ LoopResult(result)
  /\ UNCHANGED <<events, eventsOpen, emitted, event, event_listeners, atLock,
                 invoked, navigating, request_interceptor, auth_handler,
                 file_handler, policyCalls, issued, connOpen, navPc,
                 navResult>>
  /\ UNCHANGED othersOfTab

\* the browser sends an event of the Tab's session; the transport routes it
BrowserSendsEvent(e) ==
  /\ eventsOpen
  /\ emitted < MaxEvents
  /\ emitted' = emitted + 1
  /\ events' = Append(events, e)
  /\ UNCHANGED <<eventsOpen, loopPc, event, event_listeners, listenersHolder,
                 interceptorHolder, fileHolder, atLock, invoked, navigating,
                 request_interceptor, auth_handler, file_handler, policyCalls,
                 method, issued, lastResult, warnings, connOpen, navPc,
                 navResult>>
  /\ UNCHANGED othersOfTab

\* the connection to the browser closes: calls fail with TransportClosed
ConnectionCloses ==
  /\ connOpen
  /\ connOpen' = FALSE
  /\ UNCHANGED <<events, eventsOpen, emitted, loopPc, event, event_listeners,
                 listenersHolder, interceptorHolder, fileHolder, atLock,
                 invoked, navigating, request_interceptor, auth_handler,
                 file_handler, policyCalls, method, issued, lastResult,
                 warnings, navPc, navResult>>
  /\ UNCHANGED othersOfTab

\* the transport goes away, and with it the sending half of the queue
TransportDropped ==
  /\ ~connOpen
  /\ eventsOpen
  /\ eventsOpen' = FALSE
  /\ UNCHANGED <<events, emitted, loopPc, event, event_listeners,
                 listenersHolder, interceptorHolder, fileHolder, atLock,
                 invoked, navigating, request_interceptor, auth_handler,
                 file_handler, policyCalls, method, issued, lastResult,
                 warnings, connOpen, navPc, navResult>>
  /\ UNCHANGED othersOfTab

\* two listeners a user holds; MaxListeners bounds the registrations
ListenerIds == {1, 2}

\* the list without its first occurrence of l (lines 989-992)
RECURSIVE RemoveFirst(_, _)
RemoveFirst(list, l) ==
  IF list = <<>> THEN <<>>
  ELSE IF Head(list) = l THEN Tail(list)
  ELSE <<Head(list)>> \o RemoveFirst(Tail(list), l)

\* a listener is alive while an Arc of it exists: one of a user, or one in
\* the list (line 112: Vec<Arc<SyncSendEvent>>)
Registered(l) == \E i \in 1..Len(event_listeners) : event_listeners[i] = l

Alive(l) == l \in strongRefs \/ Registered(l)

\* lines 973-980: lock, push the Arc, return a Weak of it, unlock
add_event_listener(l) ==
  /\ l \in strongRefs
  /\ Len(event_listeners) < MaxListeners
  /\ ListenersAvailable(listenersHolder)
  /\ event_listeners' = Append(event_listeners, l)
  /\ UNCHANGED <<events, eventsOpen, emitted, loopPc, event, listenersHolder,
                 interceptorHolder, fileHolder, atLock, invoked, navigating,
                 request_interceptor, auth_handler, file_handler, policyCalls,
                 method, issued, lastResult, warnings, connOpen, navPc,
                 navResult>>
  /\ UNCHANGED hvars
  /\ UNCHANGED othersOfListeners

\* lines 982-995: Ok at once for a handle that does not upgrade; else lock,
\* remove the Arc at the first position that holds this listener, unlock
remove_event_listener(l) ==
  /\ IF ~Alive(l)
       THEN UNCHANGED event_listeners
       ELSE /\ ListenersAvailable(listenersHolder)
            /\ event_listeners' = RemoveFirst(event_listeners, l)
  /\ lastRemove' = l
  /\ UNCHANGED strongRefs
  /\ UNCHANGED <<events, eventsOpen, emitted, loopPc, event, listenersHolder,
                 interceptorHolder, fileHolder, atLock, invoked, navigating,
                 request_interceptor, auth_handler, file_handler, policyCalls,
                 method, issued, lastResult, warnings, connOpen, navPc,
                 navResult>>
  /\ UNCHANGED othersOfListeners

\* a user drops the last Arc it holds of a listener
CallerDrops(l) ==
  /\ l \in strongRefs
  /\ strongRefs' = strongRefs \ {l}
  /\ UNCHANGED lastRemove
  /\ UNCHANGED lvars
  /\ UNCHANGED othersOfListeners

\* lines 814-818
enable_request_interception(policy) ==
  /\ interceptorHolder = Unlocked
  /\ policy # request_interceptor
  /\ request_interceptor' = policy
  /\ UNCHANGED <<events, eventsOpen, emitted, loopPc, event, event_listeners,
                 listenersHolder, interceptorHolder, fileHolder, atLock,
                 invoked, navigating, auth_handler, file_handler, policyCalls,
                 method, issued, lastResult, warnings, connOpen, navPc,
                 navResult>>
  /\ UNCHANGED othersOfTab

\* lines 820-832
authenticate(c) ==
  /\ auth_handler' = [response |-> "ProvideCredentials", credentials |-> c]
  /\ auth_handler' # auth_handler
  /\ UNCHANGED <<events, eventsOpen, emitted, loopPc, event, event_listeners,
                 listenersHolder, interceptorHolder, fileHolder, atLock,
                 invoked, navigating, request_interceptor, file_handler,
                 policyCalls, method, issued, lastResult, warnings, connOpen,
                 navPc, navResult>>
  /\ UNCHANGED othersOfTab

\* lines 1140-1143
set_files(files) ==
  /\ fileHolder = Unlocked
  /\ files # file_handler
  /\ file_handler' = files
  /\ UNCHANGED <<events, eventsOpen, emitted, loopPc, event, event_listeners,
                 listenersHolder, interceptorHolder, fileHolder, atLock,
                 invoked, navigating, request_interceptor, auth_handler,
                 policyCalls, method, issued, lastResult, warnings, connOpen,
                 navPc, navResult>>
  /\ UNCHANGED othersOfTab

\* line 402: navigate_to calls Page.navigate and blocks for the reply
NavigateCall ==
  /\ navPc = "idle"
  /\ navPc' = "calling"
  /\ UNCHANGED <<events, eventsOpen, emitted, loopPc, event, event_listeners,
                 listenersHolder, interceptorHolder, fileHolder, atLock,
                 invoked, navigating, request_interceptor, auth_handler,
                 file_handler, policyCalls, method, issued, lastResult,
                 warnings, connOpen, navResult>>
  /\ UNCHANGED othersOfTab

\* the ways the call of navigate_to ends: a reply without error_text, a
\* reply with error_text, an error of the call
NavigateResults == {"ok", "error_text", "call_error"}

\* lines 402-412: the rest of navigate_to, once the call has returned
NavigateReturns(result) ==
  /\ navPc = "calling"
  /\ navPc' = "idle"
  /\ navResult' = result
  /\ navigating' = IF NavigateStores(result) THEN TRUE ELSE navigating
  /\ UNCHANGED <<events, eventsOpen, emitted, loopPc, event, event_listeners,
                 listenersHolder, interceptorHolder, fileHolder, atLock,
                 invoked, request_interceptor, auth_handler, file_handler,
                 policyCalls, method, issued, lastResult, warnings, connOpen>>
  /\ UNCHANGED othersOfTab

\* Tab::new (lines 170-190) and the start of the loop (244-256)
TabInit ==
  /\ events = <<>>
  /\ eventsOpen = TRUE
  /\ emitted = 0
  /\ loopPc = "recv"
  /\ event = NoEvent
  /\ event_listeners = <<>>
  /\ listenersHolder = Unlocked
  /\ interceptorHolder = Unlocked
  /\ fileHolder = Unlocked
  /\ atLock = <<>>
  /\ invoked = <<>>
  /\ navigating = FALSE
  /\ request_interceptor = "default"
  /\ auth_handler = DefaultAuth
  /\ file_handler = <<>>
  /\ policyCalls = 0
  /\ method = NoMethod
  /\ issued = <<>>
  /\ lastResult = "none"
  /\ warnings = 0
  /\ connOpen = TRUE
  /\ navPc = "idle"
  /\ navResult = "none"

\* the users hold every listener they created, and have removed none
UsersInit ==
  /\ strongRefs = ListenerIds
  /\ lastRemove = 0

\* the loop with generic listeners coming and going
ListenerNext ==
  \/ LoopRecv
  \/ LoopLock
  \/ LoopDispatch
  \/ LoopOther
  \/ LoopRequestPaused
  \/ LoopCall
  \/ \E r \in {"ok", "remote_error"} : LoopCallReturns(r)
  \/ \E e \in {OtherEvent, RequestPaused(1)} : BrowserSendsEvent(e)
  \/ \E l \in ListenerIds : add_event_listener(l)
  \/ \E l \in ListenerIds : remove_event_listener(l)
  \/ \E l \in ListenerIds : CallerDrops(l)

\* the loop and listeners that use the listener list from on_event
ReentrantNext ==
  \/ LoopRecv
  \/ LoopLock
  \/ LoopDispatch
  \/ LoopOther
  \/ \E op \in {"add_event_listener", "remove_event_listener"} :
       LoopDispatchReenters(op)
  \/ BrowserSendsEvent(OtherEvent)
  \/ \E l \in ListenerIds : add_event_listener(l)
  \/ \E l \in ListenerIds : remove_event_listener(l)

\* the loop resolving paused requests, auth challenges and file choosers
InterceptNext ==
  \/ LoopRecv
  \/ LoopLock
  \/ LoopRequestPaused
  \/ LoopAuthRequired
  \/ LoopFileChooser
  \/ LoopCall
  \/ \E r \in {"ok", "remote_error", "closed"} : LoopCallReturns(r)
  \/ \E e \in {RequestPaused(r) : r \in RequestIds}
               \cup {AuthRequired(1), FileChooserOpened(1)} :
       BrowserSendsEvent(e)
  \/ \E policy \in Policies : enable_request_interception(policy)
  \/ \E c \in Credentials : authenticate(c)
  \/ \E files \in FileLists : set_files(files)
  \/ ConnectionCloses
  \/ TransportDropped

\* the loop resolving file choosers, and set_files
FileChooserNext ==
  \/ LoopRecv
  \/ LoopLock
  \/ LoopFileChooser
  \/ LoopCall
  \/ \E r \in {"ok", "remote_error"} : LoopCallReturns(r)
  \/ \E n \in BackendNodeIds : BrowserSendsEvent(FileChooserOpened(n))
  \/ \E files \in FileLists : set_files(files)

\* the loop tracking navigation, and navigate_to
NavigationNext ==
  \/ LoopRecv
  \/ LoopLock
  \/ LoopLifecycle
  \/ LoopOther
  \/ \E e \in {Lifecycle(n) : n \in LifecycleNames} \cup {OtherEvent} :
       BrowserSendsEvent(e)
  \/ NavigateCall
  \/ \E r \in NavigateResults : NavigateReturns(r)

(***************************************************************************)
(* The pipe-mode process handle and teardown (process_pipe.rs).            *)
(* child_process is a public field: kill() and wait() of the Child can be  *)
(* called by a user before the Process is dropped.                         *)
(***************************************************************************)
Platforms == {"unix", "windows"}

\* lines 294-301 (unix): an Err, and no signal, once a wait has cached the
\* status; lines 397-404 (windows): always terminate, wait, close, Ok
KillChecksStatus(pf) == pf = "unix"

\* lines 178-181: .kill().and_then(|_| self.child_process.wait()).ok()
WaitsAfterKill(killResult) == killResult = "ok"

\* Child::kill: what it does to the state of the Child and of the OS
Kill ==
  /\ kills' = kills + 1
  /\ IF KillChecksStatus(platform) /\ status # "none"
       THEN /\ lastKill' = "err"
            /\ UNCHANGED <<os, handle, signals>>
       ELSE /\ signals' = signals + 1
            /\ lastKill' = "ok"
            /\ IF platform = "unix"
                 THEN /\ os' = IF os = "running" THEN "zombie" ELSE os
                      /\ UNCHANGED handle
                 ELSE /\ os' = "gone"
                      /\ handle' = "closed"

\* the WaitStatus values waitpid reports for a child that has ended
ExitStatuses == {"Exited", "Signaled"}

\* a wait that looks at no cached status
NeverCached(st) == FALSE

\* line 304: if let Some(status) = self.status
Cached(st) == st # "none"

\* Child::wait (unix, lines 303-310): the cached status, or waitpid, which
\* returns once the child has ended, and fails for a child already reaped
Wait ==
  /\ platform = "unix"
  /\ IF Cached(status)
       THEN /\ lastWait' = status
            /\ UNCHANGED <<os, status, waitpids>>
       ELSE /\ os # "running"
            /\ waitpids' = waitpids + 1
            /\ IF os = "zombie"
                 THEN /\ os' = "gone"
                      /\ \E st \in ExitStatuses :
                            status' = st /\ lastWait' = st
                 ELSE /\ lastWait' = "err"
                      /\ UNCHANGED <<os, status>>

\* process.child_process.kill() called by a user
UserKill ==
  /\ procPc = "live"
  /\ apiCalls < MaxApiCalls
  /\ apiCalls' = apiCalls + 1
  /\ Kill
  /\ UNCHANGED <<platform, status, waitpids, lastWait, procPc, attempted,
                 stepFailed, user_data_dir>>
  /\ UNCHANGED othersOfProcess

\* process.child_process.wait() called by a user
UserWait ==
  /\ procPc = "live"
  /\ apiCalls < MaxApiCalls
  /\ apiCalls' = apiCalls + 1
  /\ Wait
  /\ UNCHANGED <<platform, handle, signals, kills, lastKill, procPc,
                 attempted, stepFailed, user_data_dir>>
  /\ UNCHANGED othersOfProcess

\* the browser exits on its own
ChildExits ==
  /\ os = "running"
  /\ os' = "zombie"
  /\ UNCHANGED <<platform, status, handle, signals, waitpids, kills, lastKill,
                 lastWait, apiCalls, procPc, attempted, stepFailed,
                 user_data_dir>>
  /\ UNCHANGED othersOfProcess

\* Drop for Process, lines 174-175 (unix): both shutdowns, results ignored;
\* the windows Drop (lines 191-203) starts with the kill
DropShutdown(ok) ==
  /\ procPc = "live"
  /\ IF platform = "unix"
       THEN /\ attempted' = attempted \cup {"shutdown"}
            /\ stepFailed' = IF ok THEN stepFailed
                             ELSE stepFailed \cup {"shutdown"}
       ELSE /\ ok
            /\ UNCHANGED <<attempted, stepFailed>>
  /\ procPc' = "kill"
  /\ UNCHANGED <<platform, os, status, handle, signals, waitpids, kills,
                 lastKill, lastWait, apiCalls, user_data_dir>>
  /\ UNCHANGED othersOfProcess

\* lines 178-179 (unix), 194-196 (windows): self.child_process.kill()
DropKill ==
  /\ procPc = "kill"
  /\ Kill
  /\ attempted' = attempted \cup
       (IF platform = "windows" THEN {"kill", "wait"} ELSE {"kill"})
  /\ stepFailed' = IF lastKill' = "err" THEN stepFailed \cup {"kill"}
                   ELSE stepFailed
  /\ procPc' = IF platform = "unix" /\ WaitsAfterKill(lastKill') THEN "wait"
               ELSE "dir"
  /\ UNCHANGED <<platform, status, waitpids, lastWait, apiCalls,
                 user_data_dir>>
  /\ UNCHANGED othersOfProcess

\* line 180: self.child_process.wait()
DropWait ==
  /\ procPc = "wait"
  /\ Wait
  /\ attempted' = attempted \cup {"wait"}
  /\ procPc' = "dir"
  /\ UNCHANGED <<platform, handle, signals, kills, lastKill, apiCalls,
                 stepFailed, user_data_dir>>
  /\ UNCHANGED othersOfProcess

\* lines 182-186: dir.close(), a failure is logged
DropDir(ok) ==
  /\ procPc = "dir"
  /\ attempted' = attempted \cup {"dir"}
  /\ stepFailed' = IF ok THEN stepFailed ELSE stepFailed \cup {"dir"}
  /\ user_data_dir' = IF ok THEN "removed" ELSE "stuck"
  /\ procPc' = "dropped"
  /\ UNCHANGED <<platform, os, status, handle, signals, waitpids, kills,
                 lastKill, lastWait, apiCalls>>
  /\ UNCHANGED othersOfProcess

\* spawn (lines 269-274, 375-380) and Process::new (lines 99-102)
ProcessInit ==
  /\ platform \in Platforms
  /\ os = "running"
  /\ status = "none"
  /\ handle = "open"
  /\ signals = 0
  /\ waitpids = 0
  /\ kills = 0
  /\ lastKill = "none"
  /\ lastWait = "none"
  /\ apiCalls = 0
  /\ procPc = "live"
  /\ attempted = {}
  /\ stepFailed = {}
  /\ user_data_dir = "present"

ProcessNext ==
  \/ UserKill
  \/ UserWait
  \/ ChildExits
  \/ \E ok \in BOOLEAN : DropShutdown(ok)
  \/ DropKill
  \/ DropWait
  \/ \E ok \in BOOLEAN : DropDir(ok)

(***************************************************************************)
(* A port-mode launch (process_ws.rs): Process::new with its discovery     *)
(* loop, and the drop of what it spawned.                                  *)
(***************************************************************************)
\* line 90: if attempts > 10
MaxAttempts == 10

\* the errors of ws_url_from_output (lines 227, 256)
DiscoveryErrors == {"DebugPortInUse", "PortOpenTimeout"}

\* a child as start_process returns it (line 204)
NewChild == [os |-> "running", killed |-> FALSE, scanned |-> FALSE]

\* a child dropped without being killed
DropLeavesRunning(c) == c

\* lines 56-61, Drop for TemporaryProcess: kill, and wait since the kill of
\* a child that was not reaped succeeds
drop_child(c) == [c EXCEPT !.killed = TRUE, !.os = "gone"]

\* a retry whatever the port option
RetryAlways(port_is_some) == TRUE

\* line 102: if launch_options.port.is_none()
RetryAllowed(port_is_some) == ~port_is_some

\* the children after the local `process` has gone out of scope
ProcessDropped ==
  IF process = 0 THEN children
  ELSE [children EXCEPT ![process] = drop_child(children[process])]

\* a return of Err from Process::new: `process` and the TempDir are dropped
ReturnErr(error, from) ==
  /\ launchError' = error
  /\ errorFrom' = from
  /\ children' = ProcessDropped
  /\ profileDir' = "removed"
  /\ launchPc' = "failed"

\* line 83: Self::start_process(&launch_options, &user_data_dir)?
StartProcess(ok) ==
  /\ launchPc = "start"
  /\ IF ok
       THEN /\ children' = Append(children, NewChild)
            /\ process' = 1
            /\ launchPc' = "loop"
            /\ UNCHANGED <<launchError, errorFrom, profileDir>>
       ELSE /\ ReturnErr("SpawnError", "spawn")
            /\ UNCHANGED process
  /\ UNCHANGED <<pinned, attempts, discoveries>>
  /\ UNCHANGED othersOfLaunch

\* lines 89-92: the head of the loop
LoopGuard ==
  /\ launchPc = "loop"
  /\ IF attempts > MaxAttempts
       THEN ReturnErr("NoAvailablePorts", "guard")
       ELSE /\ launchPc' = "discover"
            /\ UNCHANGED <<children, launchError, errorFrom, profileDir>>
  /\ UNCHANGED <<pinned, attempts, process, discoveries>>
  /\ UNCHANGED othersOfLaunch

\* lines 94-108: ws_url_from_output on the child of `process` and the match
\* on its result, up to the respawn
Discover(result) ==
  /\ launchPc = "discover"
  /\ discoveries' = discoveries + 1
  /\ LET scanned == [children EXCEPT ![process].scanned = TRUE] IN
       IF result = "ok"
         THEN /\ launchPc' = "launched"
              /\ children' = scanned
              /\ UNCHANGED <<launchError, errorFrom, profileDir>>
         ELSE IF RetryAllowed(pinned)
           THEN /\ launchPc' = "respawn"
                /\ children' = scanned
                /\ UNCHANGED <<launchError, errorFrom, profileDir>>
           ELSE /\ launchError' = result
                /\ errorFrom' = "discovery"
                /\ children' = [scanned EXCEPT
                                  ![process] = drop_child(scanned[process])]
                /\ profileDir' = "removed"
                /\ launchPc' = "failed"
  /\ UNCHANGED <<pinned, attempts, process>>
  /\ UNCHANGED othersOfLaunch

\* line 103, the right-hand side: Self::start_process(..)?
Respawn(ok) ==
  /\ launchPc = "respawn"
  /\ IF ok
       THEN /\ children' = Append(children, NewChild)
            /\ launchPc' = "replace"
            /\ UNCHANGED <<launchError, errorFrom, profileDir>>
       ELSE ReturnErr("SpawnError", "spawn")
  /\ UNCHANGED <<pinned, attempts, process, discoveries>>
  /\ UNCHANGED othersOfLaunch

\* line 103, the assignment: the old value of `process` is dropped; then
\* lines 110-114: attempts += 1
Replace ==
  /\ launchPc = "replace"
  /\ children' = ProcessDropped
  /\ process' = Len(children)
  /\ attempts' = attempts + 1
  /\ launchPc' = "loop"
  /\ UNCHANGED <<pinned, launchError, errorFrom, discoveries, profileDir>>
  /\ UNCHANGED othersOfLaunch

\* the Process that Process::new returned goes out of scope: its fields are
\* dropped in order, child_process first, user_data_dir last
DropProcess ==
  /\ launchPc = "launched"
  /\ children' = ProcessDropped
  /\ profileDir' = "removed"
  /\ launchPc' = "dropped"
  /\ UNCHANGED <<pinned, attempts, process, launchError, errorFrom,
                 discoveries>>
  /\ UNCHANGED othersOfLaunch

\* a browser exits on its own (for instance when it cannot bind its port)
BrowserExits(i) ==
  /\ i \in 1..Len(children)
  /\ children[i].os = "running"
  /\ children' = [children EXCEPT ![i].os = "zombie"]
  /\ UNCHANGED <<pinned, launchPc, attempts, process, launchError, errorFrom,
                 discoveries, profileDir>>
  /\ UNCHANGED othersOfLaunch

\* Process::new is entered with the port pinned or not
LaunchInit ==
  /\ pinned \in BOOLEAN
  /\ launchPc = "start"
  /\ attempts = 0
  /\ children = <<>>
  /\ process = 0
  /\ launchError = "none"
  /\ errorFrom = "none"
  /\ discoveries = 0
  /\ profileDir = "present"

LaunchNext ==
  \/ \E ok \in BOOLEAN : StartProcess(ok)
  \/ LoopGuard
  \/ \E result \in {"ok"} \cup DiscoveryErrors : Discover(result)
  \/ \E ok \in BOOLEAN : Respawn(ok)
  \/ Replace
  \/ DropProcess
  \/ \E i \in 1..(MaxAttempts + 2) : BrowserExits(i)

(***************************************************************************)
(* The Wait utility (specification 4.5): the predicate is invoked, a Some  *)
(* ends the wait, a None ends it with Timeout once the timeout has         *)
(* elapsed and otherwise is followed by a sleep of one interval.           *)
(***************************************************************************)
\* a Wait that never gives up
NeverTimesOut(elapsed) == "sleep"

\* what follows a predicate that returned None after `elapsed` intervals
AfterNone(elapsed) == IF elapsed >= WaitTimeout THEN "Timeout" ELSE "sleep"

\* the clock of the model stops one interval past the timeout
MaxClock == WaitTimeout + 1

(***************************************************************************)
(* Endpoint discovery (process_ws.rs): ws_url_from_output polls            *)
(* ws_url_from_reader on the error stream of one child.  A line is one     *)
(* of: a line matching neither regex, a line matching ERROR.*bind, a line  *)
(* matching "listening on", a line matching both, a line that is not       *)
(* UTF-8.                                                                  *)
(***************************************************************************)
Lines == {"other", "bind", "listening", "bind+listening", "invalid"}

\* line 223: line? -- lines() yields an error for bytes that are not UTF-8
Decodes(line) == line # "invalid"

\* lines 212, 226: port_taken_re.is_match(&chrome_output)
port_taken_re(line) == line \in {"bind", "bind+listening"}

\* lines 214-220, 230: extract(&chrome_output)
extract(line) == IF line \in {"listening", "bind+listening"} THEN "url" ELSE "none"

\* a reader that takes a bind error for any other line
BindLineSkipped(line) ==
  IF ~Decodes(line) THEN "IoError"
  ELSE IF extract(line) # "none" THEN "url"
  ELSE "continue"

\* lines 222-233: what the loop over the lines does with one line
ReadOutcome(line) ==
  IF ~Decodes(line) THEN "IoError"
  ELSE IF port_taken_re(line) THEN "DebugPortInUse"
  ELSE IF extract(line) # "none" THEN "url"
  ELSE "continue"

\* lines 239-240: the predicate is invoked, a BufReader is put on the stream
PollBegins ==
  /\ discPc = "poll"
  /\ discPc' = "reading"
  /\ polls' = polls + 1
  /\ UNCHANGED <<stderr, stderrOpen, consumed, clock, discResult>>
  /\ UNCHANGED othersOfDiscovery

\* lines 222-233 and 241-257: the reader takes the next line; an error or
\* a URL is Some for the Wait and ends ws_url_from_output
ReadLine ==
  /\ discPc = "reading"
  /\ stderr # <<>>
  /\ stderr' = Tail(stderr)
  /\ consumed' = Append(consumed, Head(stderr))
  /\ LET found == ReadOutcome(Head(stderr)) IN
       IF found = "continue"
         THEN UNCHANGED <<discPc, discResult>>
         ELSE /\ discPc' = "done"
              /\ discResult' = found
  /\ UNCHANGED <<stderrOpen, clock, polls>>
  /\ UNCHANGED othersOfDiscovery

\* line 235: the stream is at its end, the predicate returns None; lines
\* 253-257: a Timeout of the Wait becomes PortOpenTimeout
ReadEof ==
  /\ discPc = "reading"
  /\ stderr = <<>>
  /\ ~stderrOpen
  /\ IF AfterNone(clock) = "Timeout"
       THEN /\ discPc' = "done"
            /\ discResult' = "PortOpenTimeout"
       ELSE /\ discPc' = "sleeping"
            /\ UNCHANGED discResult
  /\ UNCHANGED <<stderr, stderrOpen, consumed, clock, polls>>
  /\ UNCHANGED othersOfDiscovery

\* the sleep between two polls is over
SleepEnds ==
  /\ discPc = "sleeping"
  /\ discPc' = "poll"
  /\ clock' = clock + 1
  /\ UNCHANGED <<stderr, stderrOpen, consumed, polls, discResult>>
  /\ UNCHANGED othersOfDiscovery

\* time passes while the reader is blocked in read() on an open, empty
\* stream
BlockedInRead ==
  /\ discPc = "reading"
  /\ stderr = <<>>
  /\ stderrOpen
  /\ clock < MaxClock
  /\ clock' = clock + 1
  /\ UNCHANGED <<stderr, stderrOpen, consumed, discPc, polls, discResult>>
  /\ UNCHANGED othersOfDiscovery

\* the child writes a line to its error stream
ChildWrites(line) ==
  /\ stderrOpen
  /\ Len(consumed) + Len(stderr) < MaxLines
  /\ stderr' = Append(stderr, line)
  /\ UNCHANGED <<stderrOpen, consumed, discPc, clock, polls, discResult>>
  /\ UNCHANGED othersOfDiscovery

\* the child exits, or closes its error stream
ChildCloses ==
  /\ stderrOpen
  /\ stderrOpen' = FALSE
  /\ UNCHANGED <<stderr, consumed, discPc, clock, polls, discResult>>
  /\ UNCHANGED othersOfDiscovery

\* ws_url_from_output is entered on a child that has written nothing yet
DiscoveryInit ==
  /\ stderr = <<>>
  /\ stderrOpen = TRUE
  /\ consumed = <<>>
  /\ discPc = "poll"
  /\ clock = 0
  /\ polls = 0
  /\ discResult = "none"

\* the steps of the launching thread
DiscoverySteps ==
  \/ PollBegins
  \/ ReadLine
  \/ ReadEof
  \/ SleepEnds
  \/ BlockedInRead

DiscoveryNext ==
  \/ PollBegins
  \/ ReadLine
  \/ ReadEof
  \/ SleepEnds
  \/ BlockedInRead
  \/ \E line \in Lines : ChildWrites(line)
  \/ ChildCloses

(***************************************************************************)
(* Two port-mode launches running concurrently with auto-selected ports    *)
(* (process_ws.rs): each scans for a port, spawns a browser with it and    *)
(* reads what the browser reports; the browser binds the port it was       *)
(* given after it was spawned.                                             *)
(***************************************************************************)
Launchers == {1, 2}

Ports == 1..MaxPorts

\* a bind that takes a port whoever holds it
BindAlways(port, held) == TRUE

\* lines 271-273: TcpListener::bind(("127.0.0.1", port)).is_ok() -- a bind
\* succeeds on a port that nothing is bound to
BindSucceeds(port, held) == \A b \in held : b[1] # port

\* lines 265-269: the ports get_available_port may return; the listener of
\* the probe is dropped at once, the port is free again
AvailablePorts == {p \in Ports : BindSucceeds(p, bindings)}

\* the line a browser writes once it has tried to bind its port
ReportOf(child) == IF child = "listening" THEN "listening" ELSE "bind"

\* lines 128-132: start_process picks the port
ScanPorts(i) ==
  /\ launchers[i].pc = "scan"
  /\ IF AvailablePorts = {}
       THEN launchers' = [launchers EXCEPT ![i].pc = "failed"]
       ELSE \E p \in AvailablePorts :
              launchers' = [launchers EXCEPT ![i].pc = "spawn",
                                             ![i].debug_port = p]
  /\ UNCHANGED bindings
  /\ UNCHANGED othersOfPorts

\* lines 133-205: the browser is spawned with --remote-debugging-port
SpawnBrowser(i) ==
  /\ launchers[i].pc = "spawn"
  /\ launchers' = [launchers EXCEPT ![i].pc = "discover",
                                    ![i].child = "starting",
                                    ![i].spawns = @ + 1]
  /\ UNCHANGED bindings
  /\ UNCHANGED othersOfPorts

\* the browser binds its debugging port, or fails to
BrowserBinds(i) ==
  /\ launchers[i].child = "starting"
  /\ IF BindSucceeds(launchers[i].debug_port, bindings)
       THEN /\ bindings' = bindings \cup {<<launchers[i].debug_port, i>>}
            /\ launchers' = [launchers EXCEPT ![i].child = "listening"]
       ELSE /\ launchers' = [launchers EXCEPT ![i].child = "bindfail"]
            /\ UNCHANGED bindings
  /\ UNCHANGED othersOfPorts

\* lines 94-108: ws_url_from_output has read the browser's report; a URL
\* ends the launch, DebugPortInUse drops the browser and scans again
ReadReport(i) ==
  /\ launchers[i].pc = "discover"
  /\ launchers[i].child \in {"listening", "bindfail"}
  /\ IF ReadOutcome(ReportOf(launchers[i].child)) = "url"
       THEN /\ launchers' = [launchers EXCEPT ![i].pc = "launched"]
            /\ UNCHANGED bindings
       ELSE /\ launchers[i].spawns < MaxSpawns
            /\ launchers' = [launchers EXCEPT ![i].pc = "scan",
                                              ![i].child = "none"]
            /\ bindings' = {b \in bindings : b[2] # i}
  /\ UNCHANGED othersOfPorts

\* lines 56-61: the launched Process is dropped, its browser killed
DropLaunched(i) ==
  /\ launchers[i].pc = "launched"
  /\ launchers' = [launchers EXCEPT ![i].pc = "dropped", ![i].child = "none"]
  /\ bindings' = {b \in bindings : b[2] # i}
  /\ UNCHANGED othersOfPorts

\* a process that is no browser of these launches binds a port
OtherBinds(p) ==
  /\ BindSucceeds(p, bindings)
  /\ bindings' = bindings \cup {<<p, 0>>}
  /\ UNCHANGED launchers
  /\ UNCHANGED othersOfPorts

\* and releases it
OtherReleases(p) ==
  /\ <<p, 0>> \in bindings
  /\ bindings' = bindings \ {<<p, 0>>}
  /\ UNCHANGED launchers
  /\ UNCHANGED othersOfPorts

PortsInit ==
  /\ bindings = {}
  /\ launchers = [i \in Launchers |->
                    [pc |-> "scan", debug_port |-> 0, child |-> "none",
                     spawns |-> 0]]

PortsNext ==
  \/ \E i \in Launchers : ScanPorts(i)
  \/ \E i \in Launchers : SpawnBrowser(i)
  \/ \E i \in Launchers : BrowserBinds(i)
  \/ \E i \in Launchers : ReadReport(i)
  \/ \E i \in Launchers : DropLaunched(i)
  \/ \E p \in Ports : OtherBinds(p)
  \/ \E p \in Ports : OtherReleases(p)

(***************************************************************************)
(* The profile directories of the Process instances of one program         *)
(* (process_pipe.rs and process_ws.rs): Process::new creates a TempDir     *)
(* before it spawns, the Process owns it until it is dropped.              *)
(***************************************************************************)
Instances == 1..MaxInstances

Names == 1..MaxNames

Modes == {"pipe", "port"}

NoDir == 0

\* a directory made under a name whether or not the name is taken
AnyName(existing) == Names

\* process_ws.rs lines 79-81, process_pipe.rs line 94: tempdir() creates
\* the directory under a random name, and tries another name when the one
\* it drew exists
FreshNames(existing) == Names \ existing

\* process_ws.rs lines 79-81, process_pipe.rs line 94
AllocateDir(i, mode) ==
  /\ instances[i].pc \in {"none", "failed", "dropped"}
  /\ IF FreshNames(dirs) = {}
       THEN /\ instances' = [instances EXCEPT ![i] =
                               [mode |-> mode, pc |-> "failed",
                                user_data_dir |-> NoDir]]
            /\ UNCHANGED dirs
       ELSE \E n \in FreshNames(dirs) :
              /\ instances' = [instances EXCEPT ![i] =
                                 [mode |-> mode, pc |-> "dir",
                                  user_data_dir |-> n]]
              /\ dirs' = dirs \cup {n}
  /\ UNCHANGED othersOfProfiles

\* process_ws.rs lines 83-121, process_pipe.rs lines 96-102: the rest of
\* Process::new; on an error the TempDir is dropped and its directory
\* removed
FinishLaunch(i, ok) ==
  /\ instances[i].pc = "dir"
  /\ IF ok
       THEN /\ instances' = [instances EXCEPT ![i].pc = "alive"]
            /\ UNCHANGED dirs
       ELSE /\ instances' = [instances EXCEPT ![i].pc = "failed",
                                              ![i].user_data_dir = NoDir]
            /\ dirs' = dirs \ {instances[i].user_data_dir}
  /\ UNCHANGED othersOfProfiles

\* process_pipe.rs lines 182-186 and 197-201, and the drop of the TempDir
\* field of process_ws.rs line 32: the directory is removed, or the removal
\* fails and the directory stays behind
DropInstance(i, removed) ==
  /\ instances[i].pc = "alive"
  /\ instances' = [instances EXCEPT ![i].pc = "dropped",
                                    ![i].user_data_dir = NoDir]
  /\ dirs' = IF removed THEN dirs \ {instances[i].user_data_dir} ELSE dirs
  /\ UNCHANGED othersOfProfiles

\* another program removes a directory that no Process owns
Cleanup(n) ==
  /\ n \in dirs
  /\ \A i \in Instances : instances[i].user_data_dir # n
  /\ dirs' = dirs \ {n}
  /\ UNCHANGED instances
  /\ UNCHANGED othersOfProfiles

ProfilesInit ==
  /\ dirs = {}
  /\ instances = [i \in Instances |->
                    [mode |-> "pipe", pc |-> "none", user_data_dir |-> NoDir]]

ProfilesNext ==
  \/ \E i \in Instances, mode \in Modes : AllocateDir(i, mode)
  \/ \E i \in Instances, ok \in BOOLEAN : FinishLaunch(i, ok)
  \/ \E i \in Instances, removed \in BOOLEAN : DropInstance(i, removed)
  \/ \E n \in Names : Cleanup(n)

(***************************************************************************)
(* The waits of a Tab (tab/mod.rs): wait_until_navigated polls the         *)
(* navigating flag with Wait::until; wait_for_element, wait_for_elements   *)
(* and wait_for_element_by_role poll a lookup with Wait::strict_until      *)
(* (specification 4.5), whose discriminator is the downcast to             *)
(* NoElementFound.                                                         *)
(***************************************************************************)
ElementWaits ==
  {"wait_for_element", "wait_for_elements", "wait_for_element_by_role"}

\* what call_method returns to a lookup besides its result: a RemoteError
\* with the message "Could not find node with given id", another
\* RemoteError, TransportClosed
CallErrors == {"RemoteError:NodeNotFound", "RemoteError:Other", "TransportClosed"}

NotCalled == "NotCalled"

\* lines 389-395: the predicate of wait_until_navigated
NavigatedPredicate(flag) == IF flag THEN "None" ELSE "Some"

\* lines 128-145: NoElementFound::map
NoElementFoundMap(error) ==
  IF error = "RemoteError:NodeNotFound" THEN "NoElementFound" ELSE error

\* lines 525-543: find_element -- get_document()?, QuerySelector with
\* map_err(NoElementFound::map)?, Element::new
find_element(in) ==
  IF in.document # "ok" THEN in.document
  ELSE IF in.query # "ok" THEN NoElementFoundMap(in.query)
  ELSE in.element

\* lines 601-621: find_elements -- get_document()?, QuerySelectorAll with
\* map_err(NoElementFound::map)?, NoElementFound for no node, Element::new
find_elements(in) ==
  IF in.document # "ok" THEN in.document
  ELSE IF in.query = "empty" THEN "NoElementFound"
  ELSE IF in.query # "ok" THEN NoElementFoundMap(in.query)
  ELSE in.element

\* lines 562-590: find_element_by_role -- QueryAXTree?, NoElementFound for
\* no node or a node without backend id, DescribeNode?, Element::new
find_element_by_role(in) ==
  IF in.query \in {"empty", "no_backend_id"} THEN "NoElementFound"
  ELSE IF in.query # "ok" THEN in.query
  ELSE IF in.describe # "ok" THEN in.describe
  ELSE in.element

\* lines 480-483, 488-491, 556-559: the predicate of each strict wait
Lookup(kind, in) ==
  IF kind = "wait_for_element" THEN find_element(in)
  ELSE IF kind = "wait_for_elements" THEN find_elements(in)
  ELSE find_element_by_role(in)

\* what the calls of one lookup can return: a call is made only when the
\* calls before it succeeded
LookupInputs(kind) ==
  {in \in [document : {"ok", NotCalled} \cup CallErrors,
           query : {"ok", "empty", "no_backend_id", NotCalled} \cup CallErrors,
           describe : {"ok", NotCalled} \cup CallErrors,
           element : {"Found", "NoElementFound", "RemoteError:Other",
                      "TransportClosed", NotCalled}] :
     /\ (in.document = NotCalled) <=> (kind = "wait_for_element_by_role")
     /\ (in.query = NotCalled) <=> (in.document \in CallErrors)
     /\ in.query = "empty" => kind # "wait_for_element"
     /\ in.query = "no_backend_id" => kind = "wait_for_element_by_role"
     /\ (in.describe # NotCalled) <=>
           (kind = "wait_for_element_by_role" /\ in.query = "ok")
     /\ (in.element # NotCalled) <=>
           (in.query = "ok" /\ in.describe \in {"ok", NotCalled})}

NoInput ==
  [document |-> NotCalled, query |-> NotCalled, describe |-> NotCalled,
   element |-> NotCalled]

\* lines 482, 490, 558: Error::downcast::<NoElementFound>, the outcome
\* strict_until takes for "not yet" (specification 4.5)
Retries(result) == result = "NoElementFound"

\* a user thread enters one of the waits
WaitBegins(kind) ==
  /\ waitPc = "idle"
  /\ waitKind' = kind
  /\ waitPc' = "poll"
  /\ UNCHANGED <<waitClock, yields, lastInput, waitResult>>
  /\ UNCHANGED lvars
  /\ UNCHANGED othersOfWait

\* a None, or the outcome taken for it: Timeout or a sleep
WaitGoesOn ==
  IF AfterNone(waitClock) = "Timeout"
    THEN waitPc' = "returned" /\ waitResult' = "Timeout"
    ELSE waitPc' = "sleeping" /\ UNCHANGED waitResult

\* lines 389-395: one poll of wait_until_navigated
NavigatedPoll ==
  /\ waitPc = "poll"
  /\ waitKind = "wait_until_navigated"
  /\ LET yielded == NavigatedPredicate(navigating) IN
       /\ yields' = Append(yields, yielded)
       /\ IF yielded = "Some"
            THEN waitPc' = "returned" /\ waitResult' = "Ok"
            ELSE WaitGoesOn
  /\ UNCHANGED <<waitKind, waitClock, lastInput>>
  /\ UNCHANGED lvars
  /\ UNCHANGED othersOfWait

\* lines 480-483, 488-491, 556-559: one poll of a strict wait
ElementPoll(in) ==
  /\ waitPc = "poll"
  /\ waitKind \in ElementWaits
  /\ in \in LookupInputs(waitKind)
  /\ lastInput' = in
  /\ LET yielded == Lookup(waitKind, in) IN
       /\ yields' = Append(yields, yielded)
       /\ IF Retries(yielded)
            THEN WaitGoesOn
            ELSE waitPc' = "returned" /\ waitResult' = yielded
  /\ UNCHANGED <<waitKind, waitClock>>
  /\ UNCHANGED lvars
  /\ UNCHANGED othersOfWait

\* the sleep between two polls is over
WaitSleepEnds ==
  /\ waitPc = "sleeping"
  /\ waitClock < MaxClock
  /\ waitPc' = "poll"
  /\ waitClock' = waitClock + 1
  /\ UNCHANGED <<waitKind, yields, lastInput, waitResult>>
  /\ UNCHANGED lvars
  /\ UNCHANGED othersOfWait

WaitInit ==
  /\ waitKind = "none"
  /\ waitPc = "idle"
  /\ waitClock = 0
  /\ yields = <<>>
  /\ lastInput = NoInput
  /\ waitResult = "none"

\* the first navigate_to of a Tab: the browser emits the lifecycle events
\* of the navigation once the Navigate call was sent to it
FirstNavigationNext ==
  \/ LoopRecv
  \/ LoopLock
  \/ LoopLifecycle
  \/ \E e \in {Lifecycle(n) : n \in LifecycleNames} :
       navResult \in {"none", "ok"} /\ navPc = "calling" /\ BrowserSendsEvent(e)
  \/ \E e \in {Lifecycle(n) : n \in LifecycleNames} :
       navResult = "ok" /\ navPc = "idle" /\ BrowserSendsEvent(e)
  \/ navResult = "none" /\ NavigateCall
  \/ \E r \in NavigateResults : NavigateReturns(r)
  \/ navResult = "ok" /\ WaitBegins("wait_until_navigated")
  \/ NavigatedPoll
  \/ WaitSleepEnds

\* wait_until_navigated next to the session loop and navigate_to
NavigatedWaitNext ==
  \/ LoopRecv
  \/ LoopLock
  \/ LoopLifecycle
  \/ \E e \in {Lifecycle(n) : n \in LifecycleNames} : BrowserSendsEvent(e)
  \/ NavigateCall
  \/ \E r \in NavigateResults : NavigateReturns(r)
  \/ WaitBegins("wait_until_navigated")
  \/ NavigatedPoll
  \/ WaitSleepEnds

\* the strict waits, the browser answering the lookups in any way
ElementWaitNext ==
  \/ \E kind \in ElementWaits : WaitBegins(kind)
  \/ \E kind \in ElementWaits : \E in \in LookupInputs(kind) : ElementPoll(in)
  \/ WaitSleepEnds

(***************************************************************************)
(* LaunchOptions and its derived builder (launch_options.rs): a setter     *)
(* stores a value for its field, build() takes for every field the stored  *)
(* value or else the default its #[builder(default = ..)] attribute names. *)
(***************************************************************************)
\* Option<T>: None, or Some of a value
None == <<>>

Some(value) == <<value>>

\* line 57: #[builder(default = "Duration::from_secs(300)")]
DefaultIdleBrowserTimeout == 300

\* lines 55-56: "Defaults to 30 seconds"
DocumentedIdleBrowserTimeout == 30

\* the durations, in seconds, a user passes to idle_browser_timeout()
Durations == {DocumentedIdleBrowserTimeout, 60, DefaultIdleBrowserTimeout}

\* lines 13, 23, 57: the default of each field
DefaultOf(field) ==
  CASE field = "headless" -> TRUE
    [] field = "port" -> None
    [] field = "idle_browser_timeout" -> DefaultIdleBrowserTimeout

OptionFields == {"headless", "port", "idle_browser_timeout"}

\* the values a user passes to the setter of a field
ValuesOf(field) ==
  CASE field = "headless" -> BOOLEAN
    [] field = "port" -> {None, Some(9222)}
    [] field = "idle_browser_timeout" -> Durations

\* a setter of the builder
SetOption(field, value) ==
  /\ builder[field] # Some(value)
  /\ builder' = [builder EXCEPT ![field] = Some(value)]
  /\ UNCHANGED options
  /\ UNCHANGED othersOfOptions

\* build(): every field from the builder, a field not set from its default
Build ==
  /\ options' =
       Some([values |-> [f \in OptionFields |->
                           IF builder[f] = None THEN DefaultOf(f)
                           ELSE builder[f][1]],
             defaulted |-> {f \in OptionFields : builder[f] = None}])
  /\ options' # options
  /\ UNCHANGED builder
  /\ UNCHANGED othersOfOptions

\* lines 67-71: LaunchOptions::default_builder()
OptionsInit ==
  /\ builder = [f \in OptionFields |-> None]
  /\ options = None

OptionsNext ==
  \/ \E f \in OptionFields : \E v \in ValuesOf(f) : SetOption(f, v)
  \/ Build

(***************************************************************************)
(* Mouse (tab/mouse.rs): x, y and button each sit behind a Mutex of their  *)
(* own.  mouse_move locks x, y, button; down and up lock button, x, y.     *)
(* Every guard lives to the end of the method.  A call of the transport    *)
(* is one step that ends with the browser's answer or an error.            *)
(***************************************************************************)
MouseThreads == {1, 2}

\* the positions a thread moves the mouse to
Points == {[x |-> 0, y |-> 0], [x |-> 1, y |-> 2]}

MouseButtons == {"Left", "Right"}

NoButton == "None"

StepCounts == 0..MaxSteps

\* lines 37-39, 70-72, 85-87: the order in which a method locks
LockOrder(op) ==
  IF op = "mouse_move" THEN <<"x", "y", "button">> ELSE <<"button", "x", "y">>

MouseIdle ==
  [op |-> "none", pc |-> "idle", x |-> 0, y |-> 0, steps |-> 0,
   button |-> NoButton, held |-> 0, sent |-> <<>>, result |-> "none"]

\* a failed dispatch that the loop of mouse_move does not return on
MoveGoesOnAnyway(result) == TRUE

\* line 49: self.call_method(method)?
MoveGoesOn(result) == result = "ok"

\* a method has returned: the thread keeps what it called and the result
Returned(call, result) ==
  [MouseIdle EXCEPT !.op = call.op, !.result = result]

\* a thread calls mouse_move(to.x, to.y, steps)
MoveBegins(t, to, steps) ==
  /\ mouseCalls[t].pc = "idle"
  /\ mouseCalls' = [mouseCalls EXCEPT ![t] =
       [MouseIdle EXCEPT !.op = "mouse_move", !.pc = "locking", !.x = to.x,
                         !.y = to.y, !.steps = steps]]
  /\ UNCHANGED <<mouse, mouseLocks>>
  /\ UNCHANGED othersOfMouse

\* a thread calls down(button, _) or up(button, _)
ButtonBegins(t, op, button) ==
  /\ mouseCalls[t].pc = "idle"
  /\ mouseCalls' = [mouseCalls EXCEPT ![t] =
       [MouseIdle EXCEPT !.op = op, !.pc = "locking", !.button = button]]
  /\ UNCHANGED <<mouse, mouseLocks>>
  /\ UNCHANGED othersOfMouse

\* the Mutex a thread is about to lock
Wanted(t) == LockOrder(mouseCalls[t].op)[mouseCalls[t].held + 1]

\* lines 37-39, 70-72, 85-87: lock().unwrap() returns once the Mutex is free
MouseLock(t) ==
  /\ mouseCalls[t].pc = "locking"
  /\ mouseLocks[Wanted(t)] = NoThread
  /\ mouseLocks' = [mouseLocks EXCEPT ![Wanted(t)] = t]
  /\ mouseCalls' = [mouseCalls EXCEPT
       ![t].held = @ + 1,
       ![t].pc = IF mouseCalls[t].held + 1 = 3 THEN "body" ELSE "locking"]
  /\ UNCHANGED mouse
  /\ UNCHANGED othersOfMouse

\* the method returns: its guards are dropped
Unlocked3(t) == [l \in DOMAIN mouseLocks |->
                   IF mouseLocks[l] = t THEN NoThread ELSE mouseLocks[l]]

\* lines 40-50: one turn of the loop of mouse_move, the dispatch of a
\* mouseMoved event with the button as it is
MoveDispatch(t, result) ==
  /\ mouseCalls[t].pc = "body" /\ mouseCalls[t].op = "mouse_move"
  /\ Len(mouseCalls[t].sent) < mouseCalls[t].steps
  /\ LET ev == [event_type |-> "mouseMoved",
                step |-> Len(mouseCalls[t].sent) + 1,
                result |-> result] IN
       IF MoveGoesOn(result)
         THEN /\ mouseCalls' = [mouseCalls EXCEPT ![t].sent = Append(@, ev)]
              /\ UNCHANGED mouseLocks
         ELSE /\ mouseCalls' = [mouseCalls EXCEPT
                   ![t] = Returned(mouseCalls[t], result)]
              /\ mouseLocks' = Unlocked3(t)
  /\ UNCHANGED mouse
  /\ UNCHANGED othersOfMouse

\* lines 51-53: after the loop the position is stored and Ok returned
MoveStores(t) ==
  /\ mouseCalls[t].pc = "body" /\ mouseCalls[t].op = "mouse_move"
  /\ Len(mouseCalls[t].sent) >= mouseCalls[t].steps
  /\ mouse' = [mouse EXCEPT !.x = mouseCalls[t].x, !.y = mouseCalls[t].y]
  /\ mouseCalls' = [mouseCalls EXCEPT ![t] = Returned(mouseCalls[t], "ok")]
  /\ mouseLocks' = Unlocked3(t)
  /\ UNCHANGED othersOfMouse

\* lines 73-82, 88-97: down stores Some(button), up stores None, then the
\* event is dispatched and its result returned
ButtonDispatch(t, result) ==
  /\ mouseCalls[t].pc = "body" /\ mouseCalls[t].op \in {"down", "up"}
  /\ mouse' = [mouse EXCEPT !.button =
       IF mouseCalls[t].op = "down" THEN mouseCalls[t].button ELSE NoButton]
  /\ mouseCalls' = [mouseCalls EXCEPT ![t] = Returned(mouseCalls[t], result)]
  /\ mouseLocks' = Unlocked3(t)
  /\ UNCHANGED othersOfMouse

\* lines 22-35: Mouse::new
MouseInit ==
  /\ mouse = [x |-> 0, y |-> 0, button |-> NoButton]
  /\ mouseLocks = [l \in {"x", "y", "button"} |-> NoThread]
  /\ mouseCalls = [t \in MouseThreads |-> MouseIdle]

CallResults == {"ok", "error"}

MouseNext ==
  \/ \E t \in MouseThreads : \E to \in Points : \E steps \in StepCounts :
       MoveBegins(t, to, steps)
  \/ \E t \in MouseThreads : \E op \in {"down", "up"} :
       \E button \in MouseButtons : ButtonBegins(t, op, button)
  \/ \E t \in MouseThreads : MouseLock(t)
  \/ \E t \in MouseThreads : \E result \in CallResults : MoveDispatch(t, result)
  \/ \E t \in MouseThreads : MoveStores(t)
  \/ \E t \in MouseThreads : \E result \in CallResults :
       ButtonDispatch(t, result)

(***************************************************************************)
(* Keyboard (tab/keyboard.rs).  down and up hold the Mutex of the          *)
(* modifiers mask from their first line to their end, so each call is one  *)
(* step.  The mask is a u32 changed with |= and &= !.                      *)
(***************************************************************************)
RECURSIVE BitOr(_, _)
\* a | b
BitOr(a, b) ==
  IF a = 0 THEN b
  ELSE IF b = 0 THEN a
  ELSE (IF a % 2 = 1 \/ b % 2 = 1 THEN 1 ELSE 0)
         + 2 * BitOr(a \div 2, b \div 2)

RECURSIVE BitAndNot(_, _)
\* a & !b
BitAndNot(a, b) ==
  IF a = 0 THEN 0
  ELSE (IF a % 2 = 1 /\ b % 2 = 0 THEN 1 ELSE 0)
         + 2 * BitAndNot(a \div 2, b \div 2)

\* a bit added to the mask instead of or-ed into it
SetBitByAddition(mask, bit) == mask + bit

\* line 46: *modifiers |= self.modifier_bit(description.key)
SetBit(mask, bit) == BitOr(mask, bit)

\* line 69: *modifiers &= !self.modifier_bit(description.key)
ClearBit(mask, bit) == BitAndNot(mask, bit)

\* lines 116-124
modifier_bit(key) ==
  CASE key = "Alt" -> 1
    [] key = "Control" -> 2
    [] key = "Meta" -> 4
    [] key = "Shift" -> 8
    [] OTHER -> 0

ModifierKeys == {"Alt", "Control", "Meta", "Shift"}

\* the entries of USKEYBOARD_LAYOUT the model uses: the four modifier keys
\* and a key with a shifted variant, "a" and "A", which share their code
USKEYBOARD_LAYOUT ==
  << [key |-> "Alt", code |-> "AltLeft", shift_key |-> None],
     [key |-> "Control", code |-> "ControlLeft", shift_key |-> None],
     [key |-> "Meta", code |-> "MetaLeft", shift_key |-> None],
     [key |-> "Shift", code |-> "ShiftLeft", shift_key |-> None],
     [key |-> "a", code |-> "KeyA", shift_key |-> Some("A")],
     [key |-> "A", code |-> "KeyA", shift_key |-> None] >>

KeyCodes == {USKEYBOARD_LAYOUT[i].code : i \in DOMAIN USKEYBOARD_LAYOUT}

\* the keys a user passes to down and up; the last is in no layout
KeyNames ==
  {USKEYBOARD_LAYOUT[i].key : i \in DOMAIN USKEYBOARD_LAYOUT} \cup {"NoSuchKey"}

\* lines 154-196: get_key_definition -- the first entry with the key, its
\* shifted key when Shift is in the mask; None for KeyNotFoundError
get_key_definition(key, mask) ==
  LET found == {i \in DOMAIN USKEYBOARD_LAYOUT : USKEYBOARD_LAYOUT[i].key = key}
  IN  IF found = {} THEN None
      ELSE LET definition ==
                 USKEYBOARD_LAYOUT[CHOOSE i \in found : \A j \in found : i <= j]
               shift == mask - BitAndNot(mask, 8)
           IN  Some([key |-> IF shift = 8 /\ definition.shift_key # None
                               THEN definition.shift_key[1]
                               ELSE definition.key,
                     code |-> definition.code])

NoKeyEvent ==
  [event_type |-> "none", key |-> "", code |-> "", modifiers |-> 0,
   auto_repeat |-> FALSE, result |-> "none"]

\* lines 31-63: Keyboard::down (the event is a keyDown or a rawKeyDown by
\* the text of the key, which the layout of the model leaves out)
KeyDown(key, result) ==
  LET found == get_key_definition(key, modifiers) IN
  IF found = None
    THEN /\ lastKeyEvent' = [NoKeyEvent EXCEPT !.result = "KeyNotFoundError"]
         /\ UNCHANGED <<modifiers, pressed_keys, lastCall>>
    ELSE LET description == found[1]
             auto_repeat == description.code \in pressed_keys
             mask == SetBit(modifiers, modifier_bit(description.key))
         IN  /\ pressed_keys' = pressed_keys \cup {description.code}
             /\ modifiers' = mask
             /\ lastCall' = [lastCall EXCEPT ![description.code] = "down"]
             /\ lastKeyEvent' =
                  [event_type |-> "keyDown", key |-> description.key,
                   code |-> description.code, modifiers |-> mask,
                   auto_repeat |-> auto_repeat, result |-> result]

\* lines 65-89: Keyboard::up
KeyUp(key, result) ==
  LET found == get_key_definition(key, modifiers) IN
  IF found = None
    THEN /\ lastKeyEvent' = [NoKeyEvent EXCEPT !.result = "KeyNotFoundError"]
         /\ UNCHANGED <<modifiers, pressed_keys, lastCall>>
    ELSE LET description == found[1]
             mask == ClearBit(modifiers, modifier_bit(description.key))
         IN  /\ modifiers' = mask
             /\ pressed_keys' = pressed_keys \ {description.code}
             /\ lastCall' = [lastCall EXCEPT ![description.code] = "up"]
             /\ lastKeyEvent' =
                  [event_type |-> "keyUp", key |-> description.key,
                   code |-> description.code, modifiers |-> mask,
                   auto_repeat |-> FALSE, result |-> result]

\* a user calls down(key) or up(key); the call of the transport in it
\* returns the browser's answer or an error
KeyCall(op, key, result) ==
  /\ IF op = "down" THEN KeyDown(key, result) ELSE KeyUp(key, result)
  /\ UNCHANGED othersOfKeyboard

\* lines 23-30: Keyboard::new
KeyboardInit ==
  /\ modifiers = 0
  /\ pressed_keys = {}
  /\ lastCall = [c \in KeyCodes |-> "none"]
  /\ lastKeyEvent = NoKeyEvent

KeyboardNext ==
  \E op \in {"down", "up"} : \E key \in KeyNames : \E result \in CallResults :
     KeyCall(op, key, result)

(***************************************************************************)
(* The specifications.                                                     *)
(***************************************************************************)
\* every component as constructed, for every build and launch option
AnyInit ==
  /\ PipeInit /\ TransportInit /\ SendInit /\ TabInit
  /\ ProcessInit /\ LaunchInit /\ DiscoveryInit /\ PortsInit
  /\ ProfilesInit /\ UsersInit /\ WaitInit /\ OptionsInit
  /\ MouseInit /\ KeyboardInit

\* the unix build, the port left to the launcher
Init == AnyInit /\ platform = "unix" /\ ~pinned

\* the transport and the calls of the tabs
Spec == Init /\ [][CallNext]_vars

\* the transport and the event consumers of the tabs
EventSpec == Init /\ [][EventNext]_vars

\* the same, with the scheduling of the threads: the receive loop and every
\* caller keep running
LiveSpec ==
  /\ Spec
  /\ WF_tvars(HandleResponse \/ HandleEvent \/ HandleShutdown)
  /\ \A t \in Tabs : WF_tvars(CallRegister(t) \/ CallSend(t) \/ CallReturn(t))

\* the pipe receive loop against a remote end writing arbitrary bytes
PipeSpec == Init /\ [][PipeNext]_vars

\* the pipe receive loop reading what send_message wrote
FramingSpec == Init /\ [][FramingNext]_vars

\* threads calling send_message concurrently
SendSpec == Init /\ [][SendNext]_vars

\* a Tab's session loop and the users of its listener list
ListenerSpec == Init /\ [][ListenerNext]_vars

\* a Tab's session loop and listeners that call back into the Tab
ReentrantSpec == Init /\ [][ReentrantNext]_vars

\* a Tab's session loop resolving the events that need an answer
InterceptSpec == Init /\ [][InterceptNext]_vars

\* a Tab's session loop and navigate_to
NavigationSpec == Init /\ [][NavigationNext]_vars

\* the pipe-mode Child used through its public methods, then dropped
ProcessStart == AnyInit /\ ~pinned

ProcessSpec == ProcessStart /\ [][ProcessNext]_vars

\* a port-mode launch and the drop of its Process
LaunchStart == AnyInit /\ platform = "unix"

LaunchSpec == LaunchStart /\ [][LaunchNext]_vars

\* two concurrent launches with auto-selected ports
PortsSpec == Init /\ [][PortsNext]_vars

\* the Process instances of one program and their profile directories
ProfilesSpec == Init /\ [][ProfilesNext]_vars

\* the calls of one Keyboard
KeyboardSpec == Init /\ [][KeyboardNext]_vars

\* threads sharing one Mouse
MouseSpec == Init /\ [][MouseNext]_vars

\* building LaunchOptions
OptionsSpec == Init /\ [][OptionsNext]_vars

\* file choosers resolved with the queued files
FileChooserSpec == Init /\ [][FileChooserNext]_vars

\* the first navigation of a Tab and the wait that follows it
FirstNavigationSpec == Init /\ [][FirstNavigationNext]_vars

\* wait_until_navigated while the page navigates
NavigatedWaitSpec == Init /\ [][NavigatedWaitNext]_vars

\* the strict waits for elements
ElementWaitSpec == Init /\ [][ElementWaitNext]_vars

\* endpoint discovery on one child
DiscoverySpec == Init /\ [][DiscoveryNext]_vars

\* the same, where the launching thread keeps running and time passes; the
\* child is free to write, to stay silent and to exit
DiscoveryLiveSpec == DiscoverySpec /\ WF_dvars(DiscoverySteps)

(***************************************************************************)
(* Reference definitions the claims are stated with.                       *)
(***************************************************************************)
RECURSIVE CompleteFrames(_)
\* the texts of a stream that are terminated by a NUL, in order
CompleteFrames(s) ==
  LET k == FirstIndex(s, NUL, 1) IN
  IF k = 0 THEN <<>>
  ELSE <<SubSeq(s, 1, k - 1)>> \o CompleteFrames(SubSeq(s, k + 1, Len(s)))

\* the bytes the loop has read so far
Consumed == SubSeq(written, 1, Len(written) - Len(receiver))

\* the texts of the messages delivered to the transport, in order
ForwardedTexts ==
  LET fwd == SelectSeq(messages_tx, LAMBDA m : m.tag = "Message")
  IN  [i \in 1..Len(fwd) |-> fwd[i].text]

RecognisedFrames(s) == SelectSeq(CompleteFrames(s), Recognised)

SentinelIsLast ==
  \A i \in 1..Len(messages_tx) :
     messages_tx[i] = ConnectionShutdown => i = Len(messages_tx)

NoNul(text) == ~HasNul(text)

(***************************************************************************)
(* C7 (as amended).  When the remote end closes the pipe and the loop      *)
(* reads zero bytes, the loop sends ConnectionShutdown exactly once, as    *)
(* the last message it ever sends, and terminates; every frame completely  *)
(* received before the close that is recognised as a message has been      *)
(* forwarded, in order, before the sentinel.                               *)
(***************************************************************************)
C7_ShutdownAfterClose ==
  /\ shutdownSends <= 1
  /\ SentinelIsLast
  /\ pipeExit = "eof" =>
       /\ pipeState = "done"
       /\ remoteClosed /\ receiver = <<>>
       /\ shutdownSends = 1
       /\ rxAlive => /\ messages_tx # <<>>
                     /\ Last(messages_tx) = ConnectionShutdown
       /\ IsPrefix(RecognisedFrames(written), ForwardedTexts)

\* C7 as stated: at the zero-length read one ConnectionShutdown is sent and
\* every completely received frame, recognised or not, has been forwarded
C7_AsStated ==
  pipeExit = "eof" =>
     /\ shutdownSends = 1
     /\ IsPrefix(CompleteFrames(written), ForwardedTexts)

\* two recognised frames around an unrecognised one, then the close
C7_Witness ==
  /\ pipeExit = "eof"
  /\ Len(CompleteFrames(written)) = 3
  /\ Len(RecognisedFrames(written)) = 2
  /\ ForwardedTexts = RecognisedFrames(written)
  /\ Last(messages_tx) = ConnectionShutdown

(***************************************************************************)
(* C8.  When a read of the inbound channel fails with an I/O error, the    *)
(* receive loop terminates and exactly one ConnectionShutdown is sent to   *)
(* the transport.                                                          *)
(***************************************************************************)
C8_IoErrorSendsShutdown ==
  pipeExit = "io_error" =>
     /\ shutdownSends = 1
     /\ rxAlive => /\ messages_tx # <<>>
                   /\ Last(messages_tx) = ConnectionShutdown

HeadFrame == SubSeq(receiver, 1, FirstIndex(receiver, NUL, 1) - 1)

\* a trailing fragment without NUL was read at end-of-file
FragmentConsumed == Consumed # <<>> /\ Last(Consumed) # NUL

C10_ForwardedInOrder ==
  (rxAlive /\ pipeState = "loop") =>
     /\ IsPrefix(RecognisedFrames(Consumed), ForwardedTexts)
     /\ FragmentConsumed \/ ForwardedTexts = RecognisedFrames(Consumed)
     /\ message = <<>>

C10_DropStep ==
  ( /\ pipeState = "loop"
    /\ HasNul(receiver)
    /\ Len(receiver') < Len(receiver)
    /\ ValidUtf8(HeadFrame)
    /\ ~Recognised(HeadFrame) )
  => /\ messages_tx' = messages_tx
     /\ shutdownSends' = shutdownSends
     /\ pipeState' = "loop"

\* C10: the forwarded texts are always the recognised frames read, and the
\* step that reads an unrecognised frame sends nothing and stays in the loop
C10_UnrecognisedDropped == []C10_ForwardedInOrder /\ [][C10_DropStep]_vars

C10_Witness ==
  /\ pipeState = "loop"
  /\ rxAlive
  /\ Len(deframed) = 3
  /\ Recognised(deframed[1])
  /\ ~Recognised(deframed[2])
  /\ Recognised(deframed[3])
  /\ ForwardedTexts = <<deframed[1], deframed[3]>>

(***************************************************************************)
(* Claims about the Transport.                                             *)
(***************************************************************************)
InCall(t) == callState[t] \in {"allocated", "registered", "blocked"}

Outcomes == {"Result", "RemoteError", "TransportClosed"}

\* the receive loop took a frame from the inbound channel in this step
FrameHandled == Len(inbox') < Len(inbox)

ResponseWaiting(id) ==
  \E i \in 1..Len(inbox) : inbox[i].type = "Response" /\ inbox[i].id = id

(***************************************************************************)
(* C1.  Every call_method returns exactly one outcome -- the browser's     *)
(* result, a RemoteError or TransportClosed -- and never hangs: a call     *)
(* whose PendingCall is registered when its response is on the way         *)
(* returns, and once the connection has shut down every call in progress   *)
(* (blocked, or only just registering its PendingCall) returns.            *)
(***************************************************************************)
C1_OneOutcome ==
  \A t \in Tabs :
     /\ callState[t] = "returned" => outcome[t].kind \in Outcomes
     /\ InCall(t) => outcome[t] = Empty

C1_OutcomeKept ==
  \A t \in Tabs :
     /\ (callId'[t] = callId[t] /\ outcome[t] # Empty) => outcome'[t] = outcome[t]
     /\ (callId'[t] = callId[t] /\ slot[t] # Empty) => slot'[t] = slot[t]

C2_NoCrossTalk ==
  \A t \in Tabs :
     /\ slot[t].kind \in {"Result", "RemoteError"} => slot[t].id = callId[t]
     /\ outcome[t].kind \in {"Result", "RemoteError"} => outcome[t].id = callId[t]

\* the response of the later call came first, while the earlier call waits
C2_Witness ==
  /\ callId["t1"] = 1 /\ callState["t1"] = "blocked" /\ 1 \in DOMAIN pending
  /\ callId["t2"] = 2 /\ outcome["t2"] = [kind |-> "Result", id |-> 2]
  /\ fulfilLog = <<2>>
  /\ inbox = <<MethodResponse(1, FALSE)>>

(***************************************************************************)
(* C3.  A PendingCall is completed by at most one response: the first      *)
(* response with its id fulfils and removes it; a response whose id is     *)
(* not pending changes nothing and leaves the receive loop running.        *)
(***************************************************************************)
C3_FulfilledOnce ==
  \A i, j \in 1..Len(fulfilLog) : fulfilLog[i] = fulfilLog[j] => i = j

C3_ResponseStep ==
  (FrameHandled /\ Head(inbox).type = "Response") =>
     LET resp == Head(inbox) IN
     IF resp.id \in DOMAIN pending
     THEN /\ slot'[pending[resp.id]] = Completion(resp)
          /\ resp.id \notin DOMAIN pending'
          /\ loopState' = "running"
     ELSE /\ UNCHANGED <<pending, slot, callState, outcome, fulfilLog>>
          /\ loopState' = "running"

\* C3: no PendingCall is fulfilled twice, and a response without a
\* PendingCall is a no-op
C3_AtMostOneResponse == []C3_FulfilledOnce /\ [][C3_ResponseStep]_vars

\* a second response with the id of a fulfilled call was ignored
C3_Witness ==
  /\ inbox = <<MethodResponse(1, FALSE)>>
  /\ fulfilLog = <<1>>
  /\ slot["t1"] = [kind |-> "Result", id |-> 1]
  /\ callState["t1"] = "blocked"
  /\ loopState = "running"

(***************************************************************************)
(* C5.  Handling ConnectionShutdown fulfils every PendingCall outstanding  *)
(* at that moment with TransportClosed, leaves the table empty and         *)
(* terminates the receive loop, which handles no further frame.            *)
(***************************************************************************)
C5_ShutdownStep ==
  /\ (FrameHandled /\ Head(inbox).type = "ConnectionShutdown") =>
        /\ \A id \in DOMAIN pending : slot'[pending[id]] = TransportClosed
        /\ pending' = <<>>
        /\ loopState' = "terminated"
  /\ loopState = "terminated" =>
        /\ loopState' = "terminated"
        /\ ~FrameHandled

C5_NoneLeftBlocked ==
  loopState = "terminated" =>
     /\ pending = <<>> \/ \A id \in DOMAIN pending : callState[pending[id]] = "registered"
     /\ \A t \in Tabs : callState[t] = "blocked" => slot[t] # Empty

\* C5: the shutdown step cancels every PendingCall and ends the loop
C5_ShutdownFailsPending == []C5_NoneLeftBlocked /\ [][C5_ShutdownStep]_vars

C5_Witness ==
  /\ loopState = "terminated"
  /\ pending = <<>>
  /\ \A t \in Tabs : callState[t] = "blocked" /\ slot[t] = TransportClosed

(***************************************************************************)
(* C6.  The ids allocated are pairwise distinct and strictly increasing    *)
(* in allocation order; two calls in progress never share an id, and       *)
(* every entry of the PendingCall table belongs to the call with its id.   *)
(***************************************************************************)
C6_IdsUnique ==
  /\ \A i, j \in 1..Len(allocLog) : i < j => allocLog[i] < allocLog[j]
  /\ \A t, u \in Tabs : (t # u /\ InCall(t) /\ InCall(u)) => callId[t] # callId[u]
  /\ \A id \in DOMAIN pending : callId[pending[id]] = id

\* two calls in progress at once, the later one allocated by the first tab
C6_Witness ==
  /\ allocLog = <<1, 2>>
  /\ callId["t1"] = 2 /\ callId["t2"] = 1
  /\ DOMAIN pending = {1, 2}
  /\ \A t \in Tabs : callState[t] = "blocked"

(***************************************************************************)
(* C4.  An event tagged with a session reaches only the consumer that the  *)
(* tab of that session obtained from listen_to_target_events: every event  *)
(* in a tab's queue, and every event its loop took, carries the tab's own  *)
(* session id.                                                             *)
(***************************************************************************)
C4_OwnSessionOnly ==
  \A t \in Tabs :
     /\ \A i \in 1..Len(eventQueue[t]) : eventQueue[t][i] = SessionOf(t)
     /\ observed[t] \subseteq {SessionOf(t)}

C4_Witness ==
  /\ observed["t1"] = {"s1"}
  /\ observed["t2"] = {"s2"}
  /\ eventQueue["t1"] = <<"s1", "s1">>
  /\ eventQueue["t2"] = <<"s2">>
  /\ inbox = <<EventMessage("s0")>>

(***************************************************************************)
(* C11.  Whatever the interleaving of the threads in send_message, the     *)
(* bytes written to the outbound channel are the frames (a text and one    *)
(* NUL) of the messages, one whole frame after the other in the order the  *)
(* senders took the lock: the bytes of two messages are never mixed, and   *)
(* once every sender has returned without an I/O error the stream is a     *)
(* concatenation of whole frames.                                          *)
(***************************************************************************)
RECURSIVE Concat(_)
Concat(ss) == IF ss = <<>> THEN <<>> ELSE Head(ss) \o Concat(Tail(ss))

\* the frames of the messages sent, in the order of the lock
FramesSent == Concat([i \in 1..Len(sendLog) |-> sendLog[i] \o <<NUL>>])

C12_NoLockAcrossBlockingCall ==
  loopPc = "awaiting" => listenersHolder # "loop"

(***************************************************************************)
(* C13.  For every event the loop takes, the listeners registered when     *)
(* its dispatch starts are invoked once each, in registration order, and   *)
(* all of them before the category handling; the list does not change      *)
(* while the event is dispatched.                                          *)
(***************************************************************************)
\* the dispatch of the event is over and its category handling is under way
InCategoryHandling == loopPc \in {"match", "call", "awaiting"}

C13_DispatchIsAtomic ==
  /\ (loopPc = "dispatch" \/ InCategoryHandling) => event_listeners = atLock
  /\ loopPc = "dispatch" =>
       /\ IsPrefix(invoked, atLock)
       /\ policyCalls = 0 /\ issued = <<>>
  /\ InCategoryHandling => invoked = atLock

\* two listeners have been invoked, in the order opposite to their ids, and
\* the loop is blocked in the resolution of the event
C13_Witness ==
  /\ loopPc = "awaiting"
  /\ event = RequestPaused(1)
  /\ invoked = <<2, 1>>
  /\ event_listeners = <<2, 1>>

(***************************************************************************)
(* C14.  An iteration of the loop on a RequestPaused event invokes the     *)
(* policy once and makes one resolution call (continue, fulfil or fail);   *)
(* under the policy Tab::new installs the call is a continue of the        *)
(* event's own request id without overrides.                               *)
(***************************************************************************)
\* the step that ends the handling of the current event
IterationEnds == loopPc \in {"match", "call", "awaiting"} /\ loopPc' = "recv"

ResolutionMethods ==
  {"Fetch.continueRequest", "Fetch.fulfillRequest", "Fetch.failRequest"}

C14_AtMostOne == policyCalls <= 1 /\ Len(issued) <= 1

C14_PausedStep ==
  (IterationEnds /\ event.kind = "RequestPaused") =>
     /\ policyCalls' = 1
     /\ Len(issued') = 1
     /\ issued'[1].method \in ResolutionMethods
     /\ issued'[1].request_id = event.request_id
     /\ request_interceptor = "default" =>
          issued'[1] = ContinueRequest(event.request_id)

\* C14: one policy call and one resolution per RequestPaused event
C14_OneResolution == []C14_AtMostOne /\ [][C14_PausedStep]_vars

\* two events were sent, and the policy Tab::new installs has continued the
\* request of the second one, which the browser accepted
C14_Witness ==
  /\ loopPc = "recv"
  /\ event = RequestPaused(2)
  /\ request_interceptor = "default"
  /\ issued = <<ContinueRequest(2)>>
  /\ policyCalls = 1
  /\ lastResult = "ok"
  /\ emitted = 2

(***************************************************************************)
(* C15.  When the call that resolves a RequestPaused, AuthRequired or      *)
(* FileChooserOpened event fails, the loop logs it and takes the next      *)
(* event: it ends only when its queue is closed and empty.                 *)
(***************************************************************************)
\* the step in which the loop learns that its call has failed
ResolutionFails ==
  /\ loopPc \in {"call", "awaiting"}
  /\ loopPc' \notin {"call", "awaiting"}
  /\ lastResult' # "ok"

C15_FailureStep ==
  ResolutionFails =>
     /\ loopPc' = "recv"
     /\ warnings' = warnings + 1
     /\ events' = events

C15_EndsOnlyWhenClosed == loopPc = "finished" => (events = <<>> /\ ~eventsOpen)

\* C15: a failed resolution is logged and the loop goes on
C15_FailureIsLogged == []C15_EndsOnlyWhenClosed /\ [][C15_FailureStep]_vars

\* after a resolution that failed, the loop is resolving the next event
C15_Witness ==
  /\ lastResult = "remote_error"
  /\ loopPc = "awaiting"
  /\ event = AuthRequired(1)
  /\ connOpen

(***************************************************************************)
(* C16.  navigating is false at first; a step changes it only as follows:  *)
(* a navigate_to that succeeds and an "init" lifecycle event set it, a     *)
(* "networkAlmostIdle" lifecycle event clears it; nothing else touches it. *)
(***************************************************************************)
LifecycleStep(n) ==
  loopPc = "match" /\ event = Lifecycle(n) /\ loopPc' = "recv"

NavigateSucceeds == navPc = "calling" /\ navPc' = "idle" /\ navResult' = "ok"

C16_FlagStep ==
  /\ (LifecycleStep("init") \/ NavigateSucceeds) => navigating'
  /\ LifecycleStep("networkAlmostIdle") => ~navigating'
  /\ navigating' # navigating =>
       (LifecycleStep("init") \/ NavigateSucceeds
          \/ LifecycleStep("networkAlmostIdle"))

\* C16: the flag starts false and changes only by the three steps
C16_NavigatingFlag == ~navigating /\ [][C16_FlagStep]_vars

\* a navigate_to failed with an error_text after the flag had been cleared
\* by a networkAlmostIdle event, and the flag is still false
C16_Witness ==
  /\ navResult = "error_text"
  /\ ~navigating
  /\ event = Lifecycle("networkAlmostIdle")
  /\ loopPc = "recv"
  /\ emitted = 2

(***************************************************************************)
(* C17.  On the unix and on the windows Child alike, a kill() of a process *)
(* that has been reaped returns an error and asks nothing of the operating *)
(* system; a signal or terminate request is issued only for a process that *)
(* has not been reaped.                                                    *)
(***************************************************************************)
\* the process has been reaped: a wait has returned its status (unix), or
\* kill() has waited for it and closed its handle (windows)
Reaped == status # "none" \/ handle = "closed"

C17_KillStep ==
  /\ (kills' = kills + 1 /\ Reaped) =>
        (lastKill' = "err" /\ signals' = signals)
  /\ signals' # signals => ~Reaped

C17_NoKillAfterReap == [][C17_KillStep]_vars

(***************************************************************************)
(* C18.  When the drop of a Process has run, reaping the child and         *)
(* removing the profile directory have both been attempted, whatever the   *)
(* shutdowns of the channel and the kill returned.                         *)
(***************************************************************************)
C18_TeardownRunsEveryStep ==
  procPc = "dropped" => {"kill", "wait", "dir"} \subseteq attempted

(***************************************************************************)
(* C19.  Once a port-mode Process has been dropped, or Process::new has    *)
(* returned an error, every child the launch spawned, those replaced in    *)
(* a retry included, has been killed and reaped.                           *)
(***************************************************************************)
C19_NoChildOutlivesLaunch ==
  launchPc \in {"failed", "dropped"} =>
     \A i \in 1..Len(children) :
        children[i].killed /\ children[i].os = "gone"

\* a launch that replaced two children and then found its endpoint has been
\* dropped
C19_Witness ==
  /\ launchPc = "dropped"
  /\ Len(children) = 3
  /\ attempts = 2
  /\ \A i \in 1..3 : children[i].os = "gone"

(***************************************************************************)
(* C20.  When discovery fails with a pinned port, Process::new returns     *)
(* the discovery error without spawning again; with an auto-chosen port it *)
(* spawns another child and tries again, and it gives up with              *)
(* NoAvailablePorts after a bounded number of failed discoveries.          *)
(***************************************************************************)
DiscoveryFails ==
  launchPc = "discover" /\ launchPc' \notin {"discover", "launched"}

C20_DiscoveryStep ==
  DiscoveryFails =>
     IF pinned
       THEN /\ launchPc' = "failed"
            /\ launchError' \in DiscoveryErrors
            /\ Len(children') = Len(children)
       ELSE launchPc' = "respawn"

C20_Bounded ==
  /\ attempts <= MaxAttempts + 1
  /\ discoveries <= MaxAttempts + 1
  /\ Len(children) <= MaxAttempts + 2
  /\ pinned => Len(children) <= 1
  /\ launchPc = "replace" => ~pinned /\ Len(children) = process + 1
  /\ errorFrom = "guard" =>
       /\ launchError = "NoAvailablePorts"
       /\ ~pinned
       /\ discoveries = MaxAttempts + 1

\* C20: no retry with a pinned port, bounded retries otherwise
C20_RetryOnlyAutoPort == []C20_Bounded /\ [][C20_DiscoveryStep]_vars

\* every discovery of a launch with an auto-chosen port failed, and the
\* launch gave up
C20_Witness ==
  /\ launchPc = "failed"
  /\ ~pinned
  /\ launchError = "NoAvailablePorts"
  /\ errorFrom = "guard"
  /\ discoveries = MaxAttempts + 1

(***************************************************************************)
(* Claims about endpoint discovery.                                        *)
(***************************************************************************)
BindLines == {"bind", "bind+listening"}

\* the lines have a bind error line before any "listening on" line
RECURSIVE BindFirst(_)
BindFirst(ls) ==
  IF ls = <<>> THEN FALSE
  ELSE IF Head(ls) \in BindLines THEN TRUE
  ELSE IF Head(ls) = "listening" THEN FALSE
  ELSE BindFirst(Tail(ls))

\* a stream with a bind error line before any "listening on" line never
\* ends discovery in PortOpenTimeout
C21_NeverTimeout ==
  BindFirst(consumed \o stderr) => discResult # "PortOpenTimeout"

\* the step that reads a bind error line ends discovery with
\* DebugPortInUse, and a discovery that has ended polls no more
C21_BindLineStep ==
  /\ (discPc = "reading" /\ consumed' # consumed /\ Head(stderr) \in BindLines)
        => (discPc' = "done" /\ discResult' = "DebugPortInUse")
  /\ discPc = "done" => (polls' = polls /\ discResult' = discResult)

\* C21 as stated: whenever the stream has a bind error line before any
\* "listening on" line, what endpoint discovery returns is DebugPortInUse
C21_AsStated ==
  (BindFirst(consumed \o stderr) /\ discPc = "done")
     => discResult = "DebugPortInUse"

\* C21: a bind error line that comes before any "listening on" line ends
\* endpoint discovery with DebugPortInUse in the step that reads it, with
\* no further poll, and such a stream never gives PortOpenTimeout
C21_BindErrorIsImmediate ==
  /\ []C21_NeverTimeout
  /\ [][C21_BindLineStep]_vars

\* the bind error line was read after another line and before the timeout
C21_Witness ==
  /\ discResult = "DebugPortInUse"
  /\ consumed = <<"other", "bind">>
  /\ clock < WaitTimeout
  /\ polls = 1

\* C23: endpoint discovery always ends: once the timeout has elapsed,
\* ws_url_from_output returns (with PortOpenTimeout when the child wrote
\* neither a "listening on" line nor a bind error), whatever the child does,
\* a child that stays alive and silent included
C23_DiscoveryTerminates ==
  (clock >= WaitTimeout) ~> (discPc = "done")

(***************************************************************************)
(* Claims about concurrent launches.                                       *)
(***************************************************************************)
Launched(i) == launchers[i].pc = "launched"

\* C22: two launches with auto-selected ports that run concurrently, their
\* scans and spawns interleaved in any way, never both end launched with
\* browsers bound to the same debugging port
C22_DistinctPorts ==
  \A i, j \in Launchers :
     (i # j /\ Launched(i) /\ Launched(j))
        => /\ launchers[i].debug_port # launchers[j].debug_port
           /\ <<launchers[i].debug_port, i>> \in bindings
           /\ <<launchers[j].debug_port, j>> \in bindings

\* both launches picked the same port; the second found it taken by the
\* browser of the first, scanned again and ended on another port
C22_Witness ==
  /\ Launched(1) /\ Launched(2)
  /\ launchers[1].spawns = 1
  /\ launchers[2].spawns = 2
  /\ bindings = {<<launchers[1].debug_port, 1>>, <<launchers[2].debug_port, 2>>}

(***************************************************************************)
(* Claims about the profile directories.                                   *)
(***************************************************************************)
HoldsDir(i) == instances[i].pc \in {"dir", "alive"}

\* C24: every launch allocates its own profile directory: two Process
\* instances alive at the same time, launched one after the other or
\* concurrently, in pipe or in port mode, have different directories, and
\* the directory of each exists
C24_OwnProfileDir ==
  \A i, j \in Instances :
     (i # j /\ HoldsDir(i) /\ HoldsDir(j))
        => /\ instances[i].user_data_dir # instances[j].user_data_dir
           /\ instances[i].user_data_dir \in dirs
           /\ instances[j].user_data_dir \in dirs

\* a pipe-mode and a port-mode Process alive together, while a directory
\* whose removal failed is still there
C24_Witness ==
  /\ instances[1].pc = "alive" /\ instances[1].mode = "pipe"
  /\ instances[2].pc = "alive" /\ instances[2].mode = "port"
  /\ Cardinality(dirs) = 3

(***************************************************************************)
(* Claims about wait() of the pipe-mode Child.                             *)
(***************************************************************************)
\* a call of Child::wait returns in this step: a user's, or the teardown's
WaitReturns ==
  \/ (procPc = "live" /\ apiCalls' = apiCalls + 1 /\ kills' = kills)
  \/ (procPc = "wait" /\ procPc' = "dir")

\* once a wait() has returned a status, a later wait() returns the same
\* status and makes no waitpid call
C25_LaterWait ==
  (WaitReturns /\ lastWait \in ExitStatuses)
     => (lastWait' = lastWait /\ waitpids' = waitpids /\ status' = status)

\* the status a wait() returned is the one the Child has cached, and the
\* child was reaped once
C25_StatusCached ==
  lastWait \in ExitStatuses => (status = lastWait /\ waitpids = 1)

\* C25: wait() is idempotent: once a wait() has returned an exit status,
\* every later wait() returns that same status without another waitpid
C25_WaitIsIdempotent ==
  /\ []C25_StatusCached
  /\ [][C25_LaterWait]_vars

\* the browser ended on its own and the user waited for it three times
C25_Witness ==
  /\ lastWait = "Exited"
  /\ apiCalls = 3
  /\ kills = 0
  /\ waitpids = 1
  /\ procPc = "live"

(***************************************************************************)
(* Claims about the generic listener registry.                             *)
(***************************************************************************)
\* C26: the registry is never the sole owner of a listener: a listener the
\* users hold no Arc of any more is not kept in the list, and so is not
\* invoked for later events
C26_RegistryNeverSoleOwner ==
  \A l \in ListenerIds : Registered(l) => l \in strongRefs

\* a call of remove_event_listener returns in this step
RemoveReturns ==
  \/ lastRemove' # lastRemove
  \/ Len(event_listeners') < Len(event_listeners)

\* the list without every registration of l
Others(list, l) == SelectSeq(list, LAMBDA x : x # l)

\* C27: once remove_event_listener(h) has returned, the listener of h is
\* not in the list any more, so no later dispatch invokes it, and the other
\* listeners are still there in their order; for a listener that is dead
\* or not registered the list is left as it was
C27_RemoveUnregisters ==
  [][RemoveReturns =>
       event_listeners' = Others(event_listeners, lastRemove')]_vars

(***************************************************************************)
(* Claims about auth challenges.                                           *)
(***************************************************************************)
\* the loop reads the auth policy for the AuthRequired event it handles
AuthHandled ==
  loopPc = "match" /\ event.kind = "AuthRequired" /\ loopPc' = "call"

\* the call the loop prepares carries the event's request id and the policy
\* in force at that moment
C28_AuthStep ==
  AuthHandled =>
     /\ method'.method = "Fetch.continueWithAuth"
     /\ method'.request_id = event.request_id
     /\ method'.auth = auth_handler

\* that call is the one call made for the event
C28_OneCallStep ==
  (IterationEnds /\ event.kind = "AuthRequired") =>
     (issued' = <<method>> /\ method.method = "Fetch.continueWithAuth")

\* the policy is "Default" without credentials until an authenticate(), and
\* then "ProvideCredentials" with what the latest authenticate() gave
C28_PolicyStep ==
  auth_handler' # auth_handler =>
     \E c \in Credentials :
        /\ authenticate(c)
        /\ auth_handler' = [response |-> "ProvideCredentials",
                            credentials |-> c]

C28_PolicyKnown ==
  \/ auth_handler = [response |-> "Default", credentials |-> NoCredentials]
  \/ /\ auth_handler.response = "ProvideCredentials"
     /\ auth_handler.credentials \in Credentials

\* C28: each AuthRequired event is answered with one ContinueWithAuth call
\* for its request id, carrying the auth policy in force when it is handled:
\* "Default" and no credentials before any authenticate(), and afterwards
\* "ProvideCredentials" with the credentials of the latest authenticate()
C28_AuthAnswered ==
  /\ []C28_PolicyKnown
  /\ [][C28_AuthStep /\ C28_OneCallStep /\ C28_PolicyStep]_vars

\* the challenge was answered with the credentials in force when the loop
\* handled it; authenticate() was called again before the browser replied
C28_Witness ==
  /\ loopPc = "recv"
  /\ event = AuthRequired(1)
  /\ Len(issued) = 1
  /\ issued[1].method = "Fetch.continueWithAuth"
  /\ issued[1].auth = [response |-> "ProvideCredentials", credentials |-> 1]
  /\ auth_handler = [response |-> "ProvideCredentials", credentials |-> 2]
  /\ lastResult = "ok"

(***************************************************************************)
(* C29: Wait.until polls the predicate once per interval; it returns at    *)
(* the first poll that yields Some and polls no more; it fails with        *)
(* Timeout exactly when every poll until the timeout elapsed yielded None. *)
(* For wait_until_navigated each poll yields None while the navigating     *)
(* flag is true and Some once it is false.                                 *)
(***************************************************************************)
NavigatedWait == waitKind = "wait_until_navigated"

AllNone(history) == \A i \in 1..Len(history) : history[i] = "None"

\* the wait returned Ok: the last poll yielded Some, every poll before None
C29_FirstSome ==
  (NavigatedWait /\ waitResult = "Ok") =>
     /\ waitPc = "returned"
     /\ yields # <<>>
     /\ yields[Len(yields)] = "Some"
     /\ AllNone(SubSeq(yields, 1, Len(yields) - 1))

\* Timeout if and only if None at every poll until the timeout elapsed
C29_TimeoutIff ==
  NavigatedWait =>
     (waitResult = "Timeout" <=>
        (AllNone(yields) /\ Len(yields) = WaitTimeout + 1))

\* one poll per interval, none after the timeout
C29_FixedInterval ==
  NavigatedWait =>
     /\ waitClock <= WaitTimeout
     /\ Len(yields) = (IF waitPc = "poll" THEN waitClock ELSE waitClock + 1)

\* a poll yields what the navigating flag is at that moment
C29_PollStep ==
  [][yields' # yields /\ NavigatedWait =>
       yields' = Append(yields, IF navigating THEN "None" ELSE "Some")]_vars

\* nothing is polled once the wait returned
C29_ReturnStep == [][waitPc = "returned" => UNCHANGED qvars]_vars

C29_WaitUntil ==
  /\ [](C29_FirstSome /\ C29_TimeoutIff /\ C29_FixedInterval)
  /\ C29_PollStep
  /\ C29_ReturnStep

\* the flag was true at the first poll and false at the second
C29_Witness ==
  /\ NavigatedWait
  /\ waitResult = "Ok"
  /\ yields = <<"None", "Some">>

(***************************************************************************)
(* C30: in the strict waits only a lookup that did not find the element    *)
(* -- NoElementFound, or a RemoteError "Could not find node with given     *)
(* id" of one of its calls -- is polled again; any other error of the      *)
(* lookup is returned at once and unchanged; a lookup that never finds     *)
(* the element ends in Timeout.                                            *)
(***************************************************************************)
\* what the calls of a lookup came to, before any mapping of errors
RawOutcome(in) ==
  IF in.document \notin {"ok", NotCalled} THEN in.document
  ELSE IF in.query \in {"empty", "no_backend_id"} THEN "NoElementFound"
  ELSE IF in.query # "ok" THEN in.query
  ELSE IF in.describe \notin {"ok", NotCalled} THEN in.describe
  ELSE in.element

NotFoundYet(raw) == raw \in {"NoElementFound", "RemoteError:NodeNotFound"}

C30_PollStep ==
  [][(yields' # yields /\ waitKind \in ElementWaits) =>
       LET raw == RawOutcome(lastInput') IN
         IF NotFoundYet(raw)
           THEN \/ waitPc' = "sleeping"
                \/ waitPc' = "returned" /\ waitResult' = "Timeout"
           ELSE waitPc' = "returned" /\ waitResult' = raw]_vars

C30_TimeoutOnlyNotFound ==
  (waitKind \in ElementWaits /\ waitResult = "Timeout") =>
     /\ waitClock >= WaitTimeout
     /\ \A i \in 1..Len(yields) : yields[i] = "NoElementFound"

C30_StrictWait == C30_PollStep /\ []C30_TimeoutOnlyNotFound

(***************************************************************************)
(* C31: on a FileChooserOpened event the loop sends nothing when none of   *)
(* the queued paths exists, and otherwise exactly one SetFileInputFiles    *)
(* call that names the backend node of the event and carries the queued    *)
(* paths that exist, in their order; the queued list stays as it was.      *)
(***************************************************************************)
ChooserHandled ==
  /\ loopPc = "match"
  /\ event.kind = "FileChooserOpened"
  /\ loopPc' # loopPc

\* the loop is between taking a chooser event and waiting for the next one
ChooserInHand ==
  /\ event.kind = "FileChooserOpened"
  /\ loopPc \in {"call", "awaiting"}

\* handling a chooser event: nothing, or the call with the paths that exist
C31_ChooserStep ==
  [][ChooserHandled =>
       /\ file_handler' = file_handler
       /\ issued' = issued
       /\ LET files == SelectSeq(file_handler, LAMBDA f : f = "present") IN
            IF files = <<>>
              THEN loopPc' = "recv"
              ELSE /\ loopPc' = "call"
                   /\ method'.method = "DOM.setFileInputFiles"
                   /\ method'.backend_node_id = event.backend_node_id
                   /\ method'.files = files]_vars

\* the call is sent once: what was sent for the event is that one call
C31_OneCall ==
  /\ (event.kind = "FileChooserOpened" /\ loopPc = "call") => issued = <<>>
  /\ (event.kind = "FileChooserOpened" /\ loopPc \in {"match", "awaiting"}) =>
        issued \in {<<>>, <<method>>}
  /\ (event.kind = "FileChooserOpened" /\ loopPc = "awaiting") =>
        issued = <<method>>
  /\ event.kind = "FileChooserOpened" => Len(issued) <= 1

\* the loop does not change the queued list while it resolves the chooser
C31_QueueStep ==
  [][ChooserInHand => file_handler' = file_handler]_vars

C31_ChooserResolved == C31_ChooserStep /\ []C31_OneCall /\ C31_QueueStep

\* as stated: a queued list is sent as it is, whatever it names
C31_QueuedListIsSent ==
  [][ChooserHandled =>
       IF file_handler = <<>>
         THEN loopPc' = "recv"
         ELSE loopPc' = "call" /\ method'.files = file_handler]_vars

\* a chooser of node 2 resolved with the one queued path that exists
C31_Witness ==
  /\ event = FileChooserOpened(2)
  /\ file_handler = <<"present", "absent">>
  /\ issued = <<SetFileInputFiles(<<"present">>, 2)>>
  /\ loopPc = "awaiting"

(***************************************************************************)
(* C32: LaunchOptions built without a call of idle_browser_timeout() have  *)
(* an idle timeout of 30 seconds, the value the documentation of the field *)
(* gives.                                                                  *)
(***************************************************************************)
C32_DefaultIdleTimeout ==
  (options # None /\ "idle_browser_timeout" \in options[1].defaulted) =>
     options[1].values["idle_browser_timeout"] = DocumentedIdleBrowserTimeout

(***************************************************************************)
(* C33: when navigate_to returned Ok and the loop has processed the        *)
(* "networkAlmostIdle" event of that navigation -- before or after         *)
(* navigate_to stored the flag -- the navigating flag becomes false, so a  *)
(* following wait_until_navigated returns Ok.  Stated for the moment when  *)
(* nothing is left to happen: navigate_to has returned, the loop has       *)
(* taken every event, and the last one was "networkAlmostIdle".            *)
(***************************************************************************)
NavigationSettled ==
  /\ navPc = "idle"
  /\ navResult = "ok"
  /\ loopPc = "recv"
  /\ events = <<>>
  /\ event = Lifecycle("networkAlmostIdle")

C33_NavigationCompletes ==
  NavigationSettled => NavigatedPredicate(navigating) = "Some"

(***************************************************************************)
(* C34: threads that call mouse_move, down and up on one Mouse never       *)
(* deadlock: no two of them each wait for a Mutex the other one holds.     *)
(***************************************************************************)
Blocked(t) ==
  /\ mouseCalls[t].pc = "locking"
  /\ mouseLocks[Wanted(t)] \notin {NoThread, t}

C34_NoDeadlock ==
  ~ \E t1 \in MouseThreads : \E t2 \in MouseThreads \ {t1} :
       /\ Blocked(t1) /\ mouseLocks[Wanted(t1)] = t2
       /\ Blocked(t2) /\ mouseLocks[Wanted(t2)] = t1

(***************************************************************************)
(* C40: mouse_move(x, y, steps) dispatches the mouseMoved events 1..steps  *)
(* in order; it stores (x, y) as the position only when all of them        *)
(* succeeded; on the first failed dispatch it returns the error, sends     *)
(* nothing more and leaves position and button as they were.               *)
(***************************************************************************)
Moving(t) == mouseCalls[t].op = "mouse_move" /\ mouseCalls[t].pc = "body"

MoveReturns(t) == Moving(t) /\ mouseCalls'[t].pc = "idle"

\* while the method runs: the events sent so far are 1, 2, .. in order, none
\* failed, and there are no more than steps of them
C40_InOrder ==
  \A t \in MouseThreads : Moving(t) =>
     /\ Len(mouseCalls[t].sent) <= mouseCalls[t].steps
     /\ \A i \in 1..Len(mouseCalls[t].sent) :
          /\ mouseCalls[t].sent[i].event_type = "mouseMoved"
          /\ mouseCalls[t].sent[i].step = i
          /\ mouseCalls[t].sent[i].result = "ok"

\* Ok is returned after exactly steps events, with the position stored
C40_OkStep ==
  [][\A t \in MouseThreads :
       (MoveReturns(t) /\ mouseCalls'[t].result = "ok") =>
          /\ Len(mouseCalls[t].sent) = mouseCalls[t].steps
          /\ mouse' = [mouse EXCEPT !.x = mouseCalls[t].x,
                                    !.y = mouseCalls[t].y]]_vars

\* an error is returned at a dispatch, with position and button untouched
C40_ErrorStep ==
  [][\A t \in MouseThreads :
       (MoveReturns(t) /\ mouseCalls'[t].result # "ok") =>
          /\ Len(mouseCalls[t].sent) < mouseCalls[t].steps
          /\ mouse' = mouse]_vars

\* the position changes at no other moment, the button never by mouse_move
C40_StoreStep ==
  [][\A t \in MouseThreads : Moving(t) =>
       /\ mouse'.button = mouse.button
       /\ (mouse'.x # mouse.x \/ mouse'.y # mouse.y) =>
             (MoveReturns(t) /\ mouseCalls'[t].result = "ok")]_vars

C40_MouseMove ==
  /\ []C40_InOrder
  /\ C40_OkStep
  /\ C40_ErrorStep
  /\ C40_StoreStep

\* between the two dispatches of a move in two steps: the first event is
\* sent, the position is still the old one
C40_Witness ==
  \E t \in MouseThreads :
     /\ Moving(t)
     /\ mouseCalls[t].steps = 2
     /\ Len(mouseCalls[t].sent) = 1
     /\ mouse.x # mouseCalls[t].x

(***************************************************************************)
(* C35: a listener that calls add_event_listener or remove_event_listener  *)
(* of its own Tab while the loop invokes it returns, and the loop goes on  *)
(* with the next event: the loop is never stuck in, or ended by, one of    *)
(* its callbacks.                                                          *)
(***************************************************************************)
C35_CallbackReturns == loopPc \notin RelockOutcomes

(***************************************************************************)
(* C36: every text the pipe receive loop forwards is the byte sequence     *)
(* between two consecutive NULs of the inbound stream, or between its      *)
(* start and the first NUL: the forwarded texts are among the complete     *)
(* frames of the stream, in their order.  A fragment the remote end left   *)
(* unterminated when it closed the pipe is not forwarded, neither whole    *)
(* nor shortened.                                                          *)
(***************************************************************************)
C36_OnlyCompleteFrames ==
  /\ Len(ForwardedTexts) <= Len(RecognisedFrames(written))
  /\ IsPrefix(ForwardedTexts, RecognisedFrames(written))

(***************************************************************************)
(* C37: during a retry of the discovery the child that is replaced is      *)
(* killed and reaped before its replacement is spawned: at every moment    *)
(* at most one child of the launch is alive.                               *)
(***************************************************************************)
AliveChildren == {i \in 1..Len(children) : children[i].os = "running"}

C37_OneChildAlive == Cardinality(AliveChildren) <= 1

(***************************************************************************)
(* C38: a replacement child is spawned only to be scanned: when            *)
(* Process::new gives up with NoAvailablePorts, it has spawned as many     *)
(* children as it made discovery attempts, and has scanned the diagnostic  *)
(* stream of every one of them.                                            *)
(***************************************************************************)
GaveUp == launchPc = "failed" /\ launchError = "NoAvailablePorts"

C38_EveryChildScanned ==
  GaveUp =>
     /\ Len(children) = discoveries
     /\ \A i \in 1..Len(children) : children[i].scanned

(***************************************************************************)
(* C39: after any calls of Keyboard::down and Keyboard::up the modifiers   *)
(* mask is in 0..15 and has the bit of a modifier key (Alt 1, Control 2,   *)
(* Meta 4, Shift 8) set exactly when the latest call for that key was a    *)
(* down; pressed_keys holds exactly the codes whose latest call was a      *)
(* down; a down reports auto_repeat exactly when its code was pressed      *)
(* already.                                                                *)
(***************************************************************************)
BitOf(key) ==
  CASE key = "Alt" -> 1 [] key = "Control" -> 2 [] key = "Meta" -> 4
    [] key = "Shift" -> 8

CodeOf(key) ==
  CASE key = "Alt" -> "AltLeft" [] key = "Control" -> "ControlLeft"
    [] key = "Meta" -> "MetaLeft" [] key = "Shift" -> "ShiftLeft"

HasBit(mask, bit) == (mask \div bit) % 2 = 1

C39_Mask ==
  /\ modifiers \in 0..15
  /\ \A key \in ModifierKeys :
       HasBit(modifiers, BitOf(key)) <=> lastCall[CodeOf(key)] = "down"

C39_Pressed == pressed_keys = {c \in KeyCodes : lastCall[c] = "down"}

\* the event of a down carries auto_repeat = the code was pressed before
C39_AutoRepeatStep ==
  [][(lastKeyEvent' # lastKeyEvent /\ lastKeyEvent'.event_type = "keyDown") =>
       /\ lastKeyEvent'.auto_repeat = (lastKeyEvent'.code \in pressed_keys)
       /\ lastKeyEvent'.modifiers = modifiers']_vars

C39_KeyboardState == [](C39_Mask /\ C39_Pressed) /\ C39_AutoRepeatStep

\* Control and Shift are down, Alt was released, "a" is held and repeats
C39_Witness ==
  /\ modifiers = 10
  /\ lastCall["AltLeft"] = "up"
  /\ pressed_keys = {"ControlLeft", "ShiftLeft", "KeyA"}
  /\ lastKeyEvent.code = "KeyA"
  /\ lastKeyEvent.key = "A"
  /\ lastKeyEvent.auto_repeat

====
